---- MODULE Spec2Model ----
(***************************************************************************)
(* A model of kimchi's orchestration core, src/src/kimchi/model.py:        *)
(*   - LibvirtConnection: the memoized, self-recovering libvirt session;   *)
(*   - Model.add_task / task_lookup: asynchronous task bookkeeping;        *)
(*   - Model.vms_create, storagepools_create, networks_create and          *)
(*     templates_create: resource creation with validation and rollback.   *)
(* Every subsystem has its own specification (SpecConn, SpecTask, ...)     *)
(* over the one set of variables; a specification leaves the variables of  *)
(* the other subsystems at their initial values.                           *)
(***************************************************************************)
EXTENDS Integers, Sequences, FiniteSets, TLC

VARIABLES
    \* ---- LibvirtConnection
    connections,     \* self._connections: conn_id -> session (None when absent)
    connectionLock,  \* self._connectionLock: the thread holding it, or NoThread
    classLayers,     \* wrapMethod layers stacked on the libvirt handle classes,
                     \* innermost first: the conn_id each layer closes over
    openCount,       \* sessions libvirt.open has returned so far
    engineStopped,   \* cherrypy.engine.stop() was called
    th,              \* per request thread: its position in get() / a wrapped call
    \* ---- tasks and the object store
    next_taskid,     \* self.next_taskid
    tasks,           \* the AsyncTask objects created so far, in creation order
    rq,              \* per request thread: its position in add_task / task_lookup
    objstore,        \* self.objstore: rows (kind, id, record), in insertion order
    \* ---- the control plane (libvirt) and the host, as the operations see them
    vms,             \* defined domains: records (name, uuid, number of disks)
    volumes,         \* storage volumes: (vm uuid, disk index)
    next_uuid,       \* the next value of uuid.uuid4()
    qemu_stream,     \* self.qemu_stream
    pools,           \* storage pools, in definition order
    mountDirs,       \* directories under /var/lib/kimchi/{nfs,logical}_mount
    scanDirs,        \* scratch directories made by Scanner.scan_dir_prepare
    networks,        \* virtual networks, in definition order
    \* ---- guests: power state and statistics
    running,         \* the uuids of the domains in state running (the others are shutoff)
    boots,           \* per uuid: how many times the domain was started (history)
    stats,           \* self.stats: uuid -> sample window (a dict, {} when cleared)
    now,             \* time.time(), in whole seconds
    lastSample,      \* per uuid sampled as running by the latest per-guest tick: the
                     \* time, the boot and the raw byte counters of that sample (history)
    host_stats,      \* self.host_stats: a defaultdict(int) of the host's readings and rates
    \* ---- debug reports
    files,           \* the files under /tmp and under the debug reports directory
    jobs,            \* per task id running _sosreport_generate: its opaque (the name)
    \* ---- the host and the consoles
    paused,          \* the uuids of the domains in state paused (suspended on the host)
    graphics_ports,  \* self.graphics_ports: domain name -> websocket proxy port
    power,           \* host_shutdown / host_reboot: the request under way and the
                     \* commands issued, each with the domains running at that moment
    ret              \* the outcome of the latest foreground operation

connVars == <<connections, connectionLock, classLayers, openCount, engineStopped, th>>
taskVars == <<next_taskid, tasks, rq>>
vmVars == <<vms, volumes, next_uuid, qemu_stream>>
poolVars == <<pools, mountDirs, scanDirs>>
guestVars == <<running, boots, stats, now, lastSample, host_stats>>
reportVars == <<files, jobs>>
hostVars == <<paused, graphics_ports, power>>
nonConnVars == <<taskVars, objstore, vmVars, poolVars, networks, guestVars, reportVars, hostVars, ret>>

vars == <<connVars, taskVars, objstore, vmVars, poolVars, networks, guestVars, reportVars, hostVars, ret>>

----------------------------------------------------------------------------
(***************************************************************************)
(* LibvirtConnection                                                       *)
(***************************************************************************)

\* Bounds of the model.
MaxOpens == 3

Threads == {"t1", "t2"}
NoThread == "none"
\* conn_id values: every caller in model.py uses get()'s default, conn_id=0.
ConnIds == {0}
\* self._connections.get(conn_id) of a slot never filled, or a slot set to None.
None == 0

\* retries = 5
RETRIES == 5
\* time.sleep(2)
SLEEP_SECONDS == 2

\* libvirt error domains and codes (the ones wrapMethod names, and one other each).
VIR_FROM_REMOTE == "remote"
VIR_FROM_RPC == "rpc"
VIR_FROM_QEMU == "qemu"
VIR_ERR_SYSTEM_ERROR == "system_error"
VIR_ERR_INTERNAL_ERROR == "internal_error"
VIR_ERR_NO_CONNECT == "no_connect"
VIR_ERR_INVALID_CONN == "invalid_conn"
VIR_ERR_NO_DOMAIN == "no_domain"

ErrDomains == {VIR_FROM_REMOTE, VIR_FROM_RPC, VIR_FROM_QEMU}
ErrCodes == {VIR_ERR_SYSTEM_ERROR, VIR_ERR_INTERNAL_ERROR, VIR_ERR_NO_CONNECT,
             VIR_ERR_INVALID_CONN, VIR_ERR_NO_DOMAIN}

NoErr == [kind |-> "none", dom |-> "none", code |-> "none"]
\* An exception that is not a libvirt.libvirtError.
OtherErr == [kind |-> "other", dom |-> "none", code |-> "none"]
LibvirtErrors == [kind : {"libvirtError"}, dom : ErrDomains, code : ErrCodes]
\* What libvirt.open raises.
OpenErr == [kind |-> "libvirtError", dom |-> VIR_FROM_RPC, code |-> VIR_ERR_NO_CONNECT]
CallErrors == LibvirtErrors \cup {OtherErr}

EDOMAINS == {VIR_FROM_REMOTE, VIR_FROM_RPC}
ECODES == {VIR_ERR_SYSTEM_ERROR, VIR_ERR_INTERNAL_ERROR, VIR_ERR_NO_CONNECT,
           VIR_ERR_INVALID_CONN}

\* A classifier that takes any error of the remote/rpc domains for a broken connection.
IsConnectionErrorAnyCode(e) == e.dom \in EDOMAINS

\* A classifier that forgets VIR_ERR_NO_CONNECT.
IsConnectionErrorNoConnectLost(e) ==
    e.dom \in EDOMAINS /\ e.code \in (ECODES \ {VIR_ERR_NO_CONNECT})

\* wrapper: if edom in EDOMAINS and ecode in ECODES
IsConnectionError(e) == e.dom \in EDOMAINS /\ e.code \in ECODES

\* A thread's locals; a local that is dead at a position is reset to its initial value.
IdleThread == [pc |-> "idle", conn_id |-> 0, retries |-> 0, conn |-> None,
               pending |-> <<>>, err |-> NoErr, slept |-> 0]

\* LibvirtConnection.__init__: no session, the lock free.
ConnStart ==
    /\ connections = [c \in ConnIds |-> None]
    /\ connectionLock = NoThread
    /\ classLayers = <<>>
    /\ openCount = 0
    /\ engineStopped = FALSE
    /\ th = [t \in Threads |-> IdleThread]

\* A request thread calls self.conn.get(conn_id) and reaches `with self._connectionLock`.
GetCall(t, c) ==
    /\ th[t].pc = "idle"
    /\ UNCHANGED nonConnVars
    /\ th' = [th EXCEPT ![t] = [IdleThread EXCEPT !.pc = "get_lock", !.conn_id = c]]
    /\ UNCHANGED <<connections, connectionLock, classLayers, openCount, engineStopped>>

\* A get() that enters the lock without waiting for it.
GetEnterNoLock(t) ==
    /\ th[t].pc = "get_lock"
    /\ UNCHANGED nonConnVars
    /\ IF connections[th[t].conn_id] # None
       THEN /\ th' = [th EXCEPT ![t].pc = "hold", ![t].conn = connections[th[t].conn_id]]
            /\ UNCHANGED connectionLock
       ELSE /\ th' = [th EXCEPT ![t].pc = "open", ![t].retries = RETRIES]
            /\ connectionLock' = t
    /\ UNCHANGED <<connections, classLayers, openCount, engineStopped>>

\* with self._connectionLock: conn = self._connections.get(conn_id); if not conn: ...
\* A memoized session is returned within the same critical section.
GetEnter(t) ==
    /\ th[t].pc = "get_lock"
    /\ UNCHANGED nonConnVars
    /\ connectionLock = NoThread
    /\ IF connections[th[t].conn_id] # None
       THEN /\ th' = [th EXCEPT ![t].pc = "hold", ![t].conn = connections[th[t].conn_id]]
            /\ UNCHANGED connectionLock
       ELSE /\ th' = [th EXCEPT ![t].pc = "open", ![t].retries = RETRIES]
            /\ connectionLock' = t
    /\ UNCHANGED <<connections, classLayers, openCount, engineStopped>>

\* An attempt loop that tests the budget before it decrements it.
OpenAttemptGivesUpEarly(t, ok) ==
    /\ th[t].pc = "open"
    /\ UNCHANGED nonConnVars
    /\ connectionLock = t
    /\ IF ok
       THEN /\ openCount < MaxOpens
            /\ openCount' = openCount + 1
            /\ connections' = [connections EXCEPT ![th[t].conn_id] = openCount + 1]
            /\ classLayers' = Append(classLayers, th[t].conn_id)
            /\ connectionLock' = NoThread
            /\ th' = [th EXCEPT ![t] = [IdleThread EXCEPT !.pc = "hold",
                                    !.conn_id = th[t].conn_id, !.conn = openCount + 1]]
            /\ UNCHANGED engineStopped
       ELSE IF th[t].retries - 2 <= 0
            THEN /\ engineStopped' = TRUE
                 /\ connectionLock' = NoThread
                 /\ th' = [th EXCEPT ![t] = [IdleThread EXCEPT !.pc = "raised",
                                         !.conn_id = th[t].conn_id, !.err = OpenErr]]
                 /\ UNCHANGED <<connections, classLayers, openCount>>
            ELSE /\ th' = [th EXCEPT ![t].pc = "sleep", ![t].retries = th[t].retries - 1]
                 /\ UNCHANGED <<connections, connectionLock, classLayers, openCount,
                                engineStopped>>

\* An attempt loop that leaves get() with the lock still held when the budget is
\* exhausted.
OpenAttemptKeepsLock(t, ok) ==
    /\ th[t].pc = "open"
    /\ UNCHANGED nonConnVars
    /\ connectionLock = t
    /\ IF ok
       THEN /\ openCount < MaxOpens
            /\ openCount' = openCount + 1
            /\ connections' = [connections EXCEPT ![th[t].conn_id] = openCount + 1]
            /\ classLayers' = Append(classLayers, th[t].conn_id)
            /\ connectionLock' = NoThread
            /\ th' = [th EXCEPT ![t] = [IdleThread EXCEPT !.pc = "hold",
                                    !.conn_id = th[t].conn_id, !.conn = openCount + 1]]
            /\ UNCHANGED engineStopped
       ELSE IF th[t].retries - 1 = 0
            THEN /\ engineStopped' = TRUE
                 /\ th' = [th EXCEPT ![t] = [IdleThread EXCEPT !.pc = "raised",
                                         !.conn_id = th[t].conn_id, !.err = OpenErr]]
                 /\ UNCHANGED <<connections, connectionLock, classLayers, openCount>>
            ELSE /\ th' = [th EXCEPT ![t].pc = "sleep", ![t].retries = th[t].retries - 1]
                 /\ UNCHANGED <<connections, connectionLock, classLayers, openCount,
                                engineStopped>>

\* One turn of `while True`: retries = retries - 1; conn = libvirt.open(self.uri).
\* On success the connection's methods and the handle classes are wrapped, the
\* session is memoized and returned. On failure with no retries left the engine
\* is stopped and the error re-raised; the lock is released on both paths.
OpenAttempt(t, ok) ==
    /\ th[t].pc = "open"
    /\ UNCHANGED nonConnVars
    /\ connectionLock = t
    /\ IF ok
       THEN /\ openCount < MaxOpens
            /\ openCount' = openCount + 1
            /\ connections' = [connections EXCEPT ![th[t].conn_id] = openCount + 1]
            /\ classLayers' = Append(classLayers, th[t].conn_id)
            /\ connectionLock' = NoThread
            /\ th' = [th EXCEPT ![t] = [IdleThread EXCEPT !.pc = "hold",
                                    !.conn_id = th[t].conn_id, !.conn = openCount + 1]]
            /\ UNCHANGED engineStopped
       ELSE IF th[t].retries - 1 = 0
            THEN /\ engineStopped' = TRUE
                 /\ connectionLock' = NoThread
                 /\ th' = [th EXCEPT ![t] = [IdleThread EXCEPT !.pc = "raised",
                                         !.conn_id = th[t].conn_id, !.err = OpenErr]]
                 /\ UNCHANGED <<connections, classLayers, openCount>>
            ELSE /\ th' = [th EXCEPT ![t].pc = "sleep", ![t].retries = th[t].retries - 1]
                 /\ UNCHANGED <<connections, connectionLock, classLayers, openCount,
                                engineStopped>>

\* time.sleep(2), still inside the lock, then the next turn of the loop.
Sleep(t) ==
    /\ th[t].pc = "sleep"
    /\ UNCHANGED nonConnVars
    /\ th' = [th EXCEPT ![t].pc = "open", ![t].slept = th[t].slept + SLEEP_SECONDS]
    /\ UNCHANGED <<connections, connectionLock, classLayers, openCount, engineStopped>>

\* The wrapMethod layers a call passes through, innermost first: a method of the
\* session was wrapped once, by the get() that opened it; a method of a handle
\* class (virDomain, virNetwork, ...) carries one layer per open so far.
WrapLayers(t, via) ==
    IF via = "session" THEN <<th[t].conn_id>> ELSE classLayers

\* The last wrapped call of the request returns normally.
CallOk(t) ==
    /\ th[t].pc = "hold"
    /\ UNCHANGED nonConnVars
    /\ th' = [th EXCEPT ![t] = IdleThread]
    /\ UNCHANGED <<connections, connectionLock, classLayers, openCount, engineStopped>>

\* wrapper: f raises e. Only a libvirtError is caught; a connection error goes on
\* to clear the slot, anything else is re-raised at once. While the layers
\* unwind, conn still names the session the call was made through.
CallRaises(t, via, e) ==
    /\ th[t].pc = "hold"
    /\ UNCHANGED nonConnVars
    /\ IF e.kind = "libvirtError" /\ IsConnectionError(e)
       THEN th' = [th EXCEPT ![t].pc = "unwind", ![t].err = e,
                             ![t].pending = WrapLayers(t, via)]
       ELSE th' = [th EXCEPT ![t].pc = "raised", ![t].err = e, ![t].conn = None]
    /\ UNCHANGED <<connections, connectionLock, classLayers, openCount, engineStopped>>

\* wrapper: with self._connectionLock: self._connections[conn_id] = None; raise
\* One layer per step; the error reaches the caller after the outermost layer.
Invalidate(t) ==
    /\ th[t].pc = "unwind"
    /\ UNCHANGED nonConnVars
    /\ connectionLock = NoThread
    /\ connections' = [connections EXCEPT ![Head(th[t].pending)] = None]
    /\ th' = [th EXCEPT ![t].pending = Tail(th[t].pending),
                        ![t].conn = IF Len(th[t].pending) = 1 THEN None ELSE th[t].conn,
                        ![t].pc = IF Len(th[t].pending) = 1 THEN "raised" ELSE "unwind"]
    /\ UNCHANGED <<connectionLock, classLayers, openCount, engineStopped>>

\* The caller has the exception; the request ends.
Raised(t) ==
    /\ th[t].pc = "raised"
    /\ UNCHANGED nonConnVars
    /\ th' = [th EXCEPT ![t] = IdleThread]
    /\ UNCHANGED <<connections, connectionLock, classLayers, openCount, engineStopped>>

NextConn ==
    \/ \E t \in Threads, c \in ConnIds : GetCall(t, c)
    \/ \E t \in Threads : GetEnter(t)
    \/ \E t \in Threads, ok \in BOOLEAN : OpenAttempt(t, ok)
    \/ \E t \in Threads : Sleep(t)
    \/ \E t \in Threads : CallOk(t)
    \/ \E t \in Threads, via \in {"session", "handle"}, e \in CallErrors : CallRaises(t, via, e)
    \/ \E t \in Threads : Invalidate(t)
    \/ \E t \in Threads : Raised(t)

----------------------------------------------------------------------------
(***************************************************************************)
(* ObjectStore (kimchi.objectstore): rows keyed by (kind, id). Every       *)
(* `with self.objstore as session` block runs with exclusive access, so a  *)
(* block is one step of the model.                                         *)
(***************************************************************************)

NotFound == [missing |-> TRUE]

\* session.get_list(kind): the ids of the rows of a kind, in order.
RECURSIVE OsGetList(_, _)
OsGetList(os, kind) ==
    IF os = <<>> THEN <<>>
    ELSE IF Head(os).kind = kind
         THEN <<Head(os).id>> \o OsGetList(Tail(os), kind)
         ELSE OsGetList(Tail(os), kind)

OsHas(os, kind, id) == \E i \in DOMAIN os : os[i].kind = kind /\ os[i].id = id

\* session.get(kind, id): the record, NotFound (NotFoundError) when absent.
OsGet(os, kind, id) ==
    IF OsHas(os, kind, id)
    THEN os[CHOOSE i \in DOMAIN os : os[i].kind = kind /\ os[i].id = id].val
    ELSE NotFound

\* session.delete(kind, id, ignore_missing): the rows without the key.
OsDelete(os, kind, id) ==
    LET Keep(r) == ~(r.kind = kind /\ r.id = id) IN SelectSeq(os, Keep)

\* session.store(kind, id, record): upsert.
OsStore(os, kind, id, rec) ==
    Append(OsDelete(os, kind, id), [kind |-> kind, id |-> id, val |-> rec])

SeqRange(q) == {q[i] : i \in DOMAIN q}

----------------------------------------------------------------------------
(***************************************************************************)
(* Model.add_task / Model.task_lookup and kimchi.asynctask.AsyncTask       *)
(***************************************************************************)

MaxTasks == 2

IdleRequest == [pc |-> "idle", id |-> 0, tmp |-> 0, seen |-> "none"]

\* Model.__init__: self.next_taskid = 1
TaskStart ==
    /\ next_taskid = 1
    /\ tasks = <<>>
    /\ rq = [t \in Threads |-> IdleRequest]

\* No report was asked for yet; /tmp and the debug reports directory are empty.
ReportStart ==
    /\ files = {}
    /\ jobs = <<>>

NoPower == [pc |-> "idle", op |-> "none", seen |-> {}, issued |-> <<>>]

\* Model.__init__: self.graphics_ports = {}; no domain is suspended, and no
\* shutdown or reboot was asked for.
HostStart ==
    /\ paused = {}
    /\ graphics_ports = <<>>
    /\ power = NoPower

InFlight == {t \in Threads : rq[t].pc \in {"incr_load", "incr_store", "spawn"}}

\* add_task: id = self.next_taskid
AddTaskReadId(t) ==
    /\ rq[t].pc = "idle"
    /\ Len(tasks) + Cardinality(InFlight) < MaxTasks
    /\ rq' = [rq EXCEPT ![t] = [IdleRequest EXCEPT !.pc = "incr_load", !.id = next_taskid]]
    /\ UNCHANGED <<connVars, reportVars, hostVars, guestVars, next_taskid, tasks, objstore, vmVars, poolVars, networks, ret>>

\* add_task: the right-hand side of self.next_taskid = self.next_taskid + 1
AddTaskLoadNext(t) ==
    /\ rq[t].pc = "incr_load"
    /\ rq' = [rq EXCEPT ![t].pc = "incr_store", ![t].tmp = next_taskid + 1]
    /\ UNCHANGED <<connVars, reportVars, hostVars, guestVars, next_taskid, tasks, objstore, vmVars, poolVars, networks, ret>>

\* add_task: the assignment to self.next_taskid
AddTaskStoreNext(t) ==
    /\ rq[t].pc = "incr_store"
    /\ next_taskid' = rq[t].tmp
    /\ rq' = [rq EXCEPT ![t].pc = "spawn", ![t].tmp = 0]
    /\ UNCHANGED <<connVars, reportVars, hostVars, guestVars, tasks, objstore, vmVars, poolVars, networks, ret>>

\* AsyncTask._save_helper: the row stored for a task object.
TaskRecord(task) ==
    [id |-> ToString(task.id), target_uri |-> task.target_uri,
     message |-> task.message, status |-> task.status]

SaveTask(os, task) == OsStore(os, "task", ToString(task.id), TaskRecord(task))

\* AsyncTask.__init__: status running, message OK, saved, the worker thread started.
NewTask(id, target_uri) ==
    [id |-> id, target_uri |-> target_uri, status |-> "running", message |-> "OK"]

\* add_task: task = AsyncTask(id, target_uri, fn, self.objstore, opaque); return id
AddTaskSpawn(t) ==
    /\ rq[t].pc = "spawn"
    /\ tasks' = Append(tasks, NewTask(rq[t].id, ""))
    /\ objstore' = SaveTask(objstore, NewTask(rq[t].id, ""))
    /\ rq' = [rq EXCEPT ![t].pc = "returned"]
    /\ UNCHANGED <<connVars, reportVars, hostVars, guestVars, next_taskid, vmVars, poolVars, networks, ret>>

\* task_lookup(id): session.get('task', str(id))
TaskStatusOf(os, id) ==
    IF OsHas(os, "task", ToString(id)) THEN OsGet(os, "task", ToString(id)).status
    ELSE "NotFoundError"

\* debugreports_create: return self.task_lookup(taskid)
LookupReturned(t) ==
    /\ rq[t].pc = "returned"
    /\ rq' = [rq EXCEPT ![t].pc = "idle", ![t].seen = TaskStatusOf(objstore, rq[t].id)]
    /\ UNCHANGED <<connVars, reportVars, hostVars, guestVars, next_taskid, tasks, objstore, vmVars, poolVars, networks, ret>>

\* task_lookup(id) from any request
TaskLookup(t, id) ==
    /\ rq[t].pc = "idle"
    /\ rq' = [rq EXCEPT ![t] = [IdleRequest EXCEPT !.id = id,
                                 !.seen = TaskStatusOf(objstore, id)]]
    /\ UNCHANGED <<connVars, reportVars, hostVars, guestVars, next_taskid, tasks, objstore, vmVars, poolVars, networks, ret>>

\* The unit of work calls cb(message) to report progress: the message is saved.
TaskProgress(k) ==
    /\ k \in DOMAIN tasks
    /\ tasks[k].status = "running"
    /\ tasks[k].message = "OK"
    /\ tasks' = [tasks EXCEPT ![k].message = "progress"]
    /\ objstore' = SaveTask(objstore, tasks'[k])
    /\ UNCHANGED <<connVars, reportVars, hostVars, guestVars, next_taskid, rq, vmVars, poolVars, networks, ret>>

\* The unit of work ends: finished on a normal return, failed (with the
\* exception's message) when it raised.
TaskEnd(k, ok) ==
    /\ k \in DOMAIN tasks
    /\ tasks[k].status = "running"
    /\ tasks' = [tasks EXCEPT ![k].status = IF ok THEN "finished" ELSE "failed",
                              ![k].message = IF ok THEN "OK" ELSE "Unexpected exception"]
    /\ objstore' = SaveTask(objstore, tasks'[k])
    /\ UNCHANGED <<connVars, reportVars, hostVars, guestVars, next_taskid, rq, vmVars, poolVars, networks, ret>>

NextTask ==
    \/ \E t \in Threads : AddTaskReadId(t)
    \/ \E t \in Threads : AddTaskLoadNext(t)
    \/ \E t \in Threads : AddTaskStoreNext(t)
    \/ \E t \in Threads : AddTaskSpawn(t)
    \/ \E t \in Threads : LookupReturned(t)
    \/ \E t \in Threads, id \in 1..MaxTasks : TaskLookup(t, id)
    \/ \E k \in 1..MaxTasks : TaskProgress(k)
    \/ \E k \in 1..MaxTasks, ok \in BOOLEAN : TaskEnd(k, ok)

----------------------------------------------------------------------------
(***************************************************************************)
(* The control plane and the host at start-up.                             *)
(***************************************************************************)

NoRet == [n |-> 0, op |-> "none", arg |-> [name |-> ""], exc |-> "none", val |-> "",
          log |-> <<>>]

\* Model.__init__: self.stats = {}; no domain is running, the clock starts at 0.
GuestStart ==
    /\ running = {}
    /\ boots = <<>>
    /\ stats = <<>>
    /\ now = 0
    /\ lastSample = <<>>
    /\ host_stats = <<>>

PlaneStart ==
    /\ GuestStart
    /\ ReportStart
    /\ HostStart
    /\ vms = {}
    /\ volumes = {}
    /\ next_uuid = 1
    /\ qemu_stream = FALSE
    /\ pools = <<>>
    /\ mountDirs = {}
    /\ scanDirs = {}
    /\ networks = <<>>
    /\ ret = NoRet

----------------------------------------------------------------------------
(***************************************************************************)
(* get_vm_name and Model.vms_create                                        *)
(***************************************************************************)

MaxVmOps == 1

\* xrange(1, 1000)
XRANGE_FIRST == 1
XRANGE_END == 1000

\* "%s-vm-%i" % (t_name, i)
FormatVmName(t_name, i) == t_name \o "-vm-" \o ToString(i)

\* The value of the scan when the loop ends without returning.
NoIndex == 0 - 1

\* for i in xrange(lo, hi + 1): if "%s-vm-%i" not in name_list: return it.
\* The scan runs left to right; it is split in halves so that its evaluation
\* nests logarithmically.
RECURSIVE get_vm_name_scan(_, _, _, _)
get_vm_name_scan(t_name, name_list, lo, hi) ==
    IF lo > hi THEN NoIndex
    ELSE IF lo = hi
         THEN (IF FormatVmName(t_name, lo) \notin name_list THEN lo ELSE NoIndex)
         ELSE LET mid == (lo + hi) \div 2
                  left == get_vm_name_scan(t_name, name_list, lo, mid)
              IN  IF left # NoIndex THEN left
                  ELSE get_vm_name_scan(t_name, name_list, mid + 1, hi)

\* The loop of get_vm_name from `first`, and the raise after it.
get_vm_name_loop(t_name, name_list, first) ==
    LET i == get_vm_name_scan(t_name, name_list, first, XRANGE_END - 1) IN
    IF i # NoIndex
    THEN [exc |-> "none", name |-> FormatVmName(t_name, i)]
    ELSE [exc |-> "OperationFailed", name |-> ""]

\* A name search that counts from 0.
get_vm_name_from_zero(vm_name, t_name, name_list) ==
    IF vm_name # "" THEN [exc |-> "none", name |-> vm_name]
    ELSE get_vm_name_loop(t_name, name_list, 0)

\* get_vm_name(vm_name, t_name, name_list); a missing or empty name is "".
get_vm_name(vm_name, t_name, name_list) ==
    IF vm_name # "" THEN [exc |-> "none", name |-> vm_name]
    ELSE get_vm_name_loop(t_name, name_list, XRANGE_FIRST)

\* A listing that names no domain.
vms_get_list_empty == {}

\* vms_get_list(): the names of the running and the defined domains.
vms_get_list == {v.name : v \in vms}

\* VMTemplate.to_volume_list(vm_uuid): one volume per disk of the template.
to_volume_list(info, vm_uuid) == [i \in 1..info.disks |-> <<vm_uuid, i>>]

\* The outcome of an operation: its number, its name and arguments, the exception
\* it raised ("none" on a normal return), the value returned, and the calls it
\* made on the control plane with their outcomes, in order.
Ret(op, arg, exc, val, log) ==
    [n |-> ret.n + 1, op |-> op, arg |-> arg, exc |-> exc, val |-> val, log |-> log]

Call(name, ok) == [call |-> name, ok |-> ok]
Calls(name, k) == [i \in 1..k |-> Call(name, TRUE)]

\* vms_create, from fork_vm_storage on. Any pool.createXML of the fork may raise
\* (the error leaves vms_create as it is); conn.defineXML may raise, and then any
\* vol.delete(0) of the rollback may raise in turn.
VmsCreateForkAndDefine(arg, name, info) ==
    LET vm_uuid == next_uuid
        vol_list == to_volume_list(info, vm_uuid)
        n == Len(vol_list)
        withIcon == IF info.icon # ""
                    THEN OsStore(objstore, "vm", ToString(vm_uuid), [icon |-> info.icon])
                    ELSE objstore
        forked == Calls("createXML", n)
    IN  \/ \E k \in 1..n :
            /\ volumes' = volumes \cup {vol_list[i] : i \in 1..(k - 1)}
            /\ ret' = Ret("vms_create", arg, "libvirtError", "",
                          Calls("createXML", k - 1) \o <<Call("createXML", FALSE)>>)
            /\ UNCHANGED <<vms, objstore>>
        \/ /\ volumes' = volumes \cup SeqRange(vol_list)
           /\ objstore' = withIcon
           /\ vms' = vms \cup {[name |-> name, uuid |-> vm_uuid, disks |-> n]}
           /\ ret' = Ret("vms_create", arg, "none", name,
                         forked \o <<Call("defineXML", TRUE)>>)
        \/ /\ volumes' = (volumes \cup SeqRange(vol_list)) \ SeqRange(vol_list)
           /\ objstore' = withIcon
           /\ ret' = Ret("vms_create", arg, "OperationFailed", "",
                         forked \o <<Call("defineXML", FALSE)>> \o Calls("delete", n))
           /\ UNCHANGED vms
        \/ \E k \in 1..n :
            /\ volumes' = (volumes \cup SeqRange(vol_list))
                            \ {vol_list[i] : i \in 1..(k - 1)}
            /\ objstore' = withIcon
            /\ ret' = Ret("vms_create", arg, "libvirtError", "",
                          forked \o <<Call("defineXML", FALSE)>>
                              \o Calls("delete", k - 1) \o <<Call("delete", FALSE)>>)
            /\ UNCHANGED vms

\* vms_create(params): params['template'] names t_name, params.get('name') is reqName.
\* t.validate() may reject the template's storage or network (InvalidParameter).
VmsCreate(reqName, t_name) ==
    LET arg == [name |-> reqName, template |-> t_name]
        vm_list == vms_get_list
        pick == get_vm_name(reqName, t_name, vm_list)
        Fail(exc) == /\ ret' = Ret("vms_create", arg, exc, "", <<>>)
                     /\ UNCHANGED <<vms, volumes, objstore>>
    IN  /\ ret.n < MaxVmOps
        /\ next_uuid' = next_uuid + 1
        /\ UNCHANGED <<connVars, reportVars, hostVars, guestVars, taskVars, qemu_stream, poolVars, networks>>
        /\ IF pick.exc # "none" THEN Fail(pick.exc)
           ELSE IF pick.name \in vm_list THEN Fail("InvalidOperation")
           ELSE IF ~OsHas(objstore, "template", t_name) THEN Fail("NotFoundError")
           ELSE LET info == OsGet(objstore, "template", t_name) IN
                IF ~qemu_stream /\ info.iso_stream THEN Fail("InvalidOperation")
                ELSE \/ Fail("InvalidParameter")
                     \/ VmsCreateForkAndDefine(arg, pick.name, info)

\* The names and template names requests are drawn from.
RequestNames == {"", "web", "tmpl-vm-2"}
TemplateNames == {"tmpl", "stream", "ghost"}

NextVm ==
    \E reqName \in RequestNames, t_name \in TemplateNames : VmsCreate(reqName, t_name)

\* Templates in the object store when the requests arrive.
TemplateRows ==
    <<[kind |-> "template", id |-> "tmpl",
       val |-> [disks |-> 2, icon |-> "images/icon.png", iso_stream |-> FALSE]],
      [kind |-> "template", id |-> "stream",
       val |-> [disks |-> 1, icon |-> "", iso_stream |-> TRUE]]>>

\* Domains libvirt may already hold: "tmpl-vm-i" for the i of a set, each with
\* one disk; or every "stream-vm-i".
Population(I) == {[name |-> FormatVmName("tmpl", i), uuid |-> 0 - i, disks |-> 1] : i \in I}

StreamPopulation ==
    {[name |-> FormatVmName("stream", i), uuid |-> 0 - i, disks |-> 1] :
        i \in XRANGE_FIRST..(XRANGE_END - 1)}

VmPopulations ==
    { Population({}), Population({1, 2}), Population({2, 3}),
      Population(1..(XRANGE_END - 1)), Population((1..(XRANGE_END - 1)) \ {500}),
      Population(1..(XRANGE_END - 2)), StreamPopulation }

----------------------------------------------------------------------------
(***************************************************************************)
(* Model.vm_start, vm_stop, vm_lookup, vm_delete and vm_update             *)
(***************************************************************************)

MaxLifeOps == 3

\* _vm_exists(name) / _get_vm(name): conn.lookupByName
vm_exists(name) == \E v \in vms : v.name = name
get_vm(name) == CHOOSE v \in vms : v.name = name

\* dom.UUIDString() as the key of the side tables
UUIDString(v) == ToString(v.uuid)

\* Model.dom_state_map[dom.info()[0]]
DomState(v) ==
    IF v.uuid \in paused THEN "paused"
    ELSE IF v.uuid \in running THEN "running" ELSE "shutoff"

\* _vm_get_disk_paths(dom): the disk sources of the descriptor, in document order
vm_get_disk_paths(v) == [i \in 1..v.disks |-> <<v.uuid, i>>]

\* A dict or self.stats read with .get(key, default)
DictGet(d, key, default) == IF key \in DOMAIN d THEN d[key] ELSE default

\* d[key] = val on a dict
DictSet(d, key, val) == [k \in DOMAIN d \cup {key} |-> IF k = key THEN val ELSE d[k]]

\* {}
EmptyDict == <<>>

BootsOf(u) == DictGet(boots, u, 0)

\* _get_screenshot(vm_uuid): the 'screenshot' row is made when it is missing.
get_screenshot(os, v) ==
    IF OsHas(os, "screenshot", UUIDString(v)) THEN os
    ELSE OsStore(os, "screenshot", UUIDString(v), [uuid |-> UUIDString(v)])

\* _vmscreenshot_delete(vm_uuid): the object store after it
vmscreenshot_delete(os, v) ==
    OsDelete(get_screenshot(os, v), "screenshot", UUIDString(v))

\* vmscreenshot_lookup(name) of a running domain: the object store after it
vmscreenshot_lookup(os, v) ==
    OsStore(get_screenshot(os, v), "screenshot", UUIDString(v), [uuid |-> UUIDString(v)])

\* vm_lookup(name) of an existing domain: what it leaves in the object store and
\* in self.stats (a screenshot is looked up for a running domain, the sample
\* window is reset for a shutoff one).
vm_lookup_objstore(os, v) ==
    IF DomState(v) = "running" THEN vmscreenshot_lookup(os, v) ELSE os

vm_lookup_stats(st, v) ==
    IF DomState(v) = "shutoff" THEN DictSet(st, v.uuid, EmptyDict) ELSE st

\* vm_start(name): dom.create()
VmStart(name) ==
    LET arg == [name |-> name] IN
    /\ ret.n < MaxLifeOps
    /\ UNCHANGED <<connVars, reportVars, hostVars, taskVars, objstore, vmVars, poolVars, networks, stats, now, lastSample, host_stats>>
    /\ IF ~vm_exists(name)
       THEN /\ ret' = Ret("vm_start", arg, "NotFoundError", "", <<>>)
            /\ UNCHANGED <<running, boots>>
       ELSE LET v == get_vm(name) IN
            \/ /\ DomState(v) = "shutoff"
               /\ running' = running \cup {v.uuid}
               /\ boots' = DictSet(boots, v.uuid, BootsOf(v.uuid) + 1)
               /\ ret' = Ret("vm_start", arg, "none", "", <<Call("create", TRUE)>>)
            \/ /\ ret' = Ret("vm_start", arg, "libvirtError", "", <<Call("create", FALSE)>>)
               /\ UNCHANGED <<running, boots>>

\* vm_stop(name): dom.destroy() when the domain exists
VmStop(name) ==
    LET arg == [name |-> name] IN
    /\ ret.n < MaxLifeOps
    /\ UNCHANGED <<connVars, reportVars, hostVars, taskVars, objstore, vmVars, poolVars, networks, boots, stats, now, lastSample, host_stats>>
    /\ IF ~vm_exists(name)
       THEN /\ ret' = Ret("vm_stop", arg, "none", "", <<>>)
            /\ UNCHANGED running
       ELSE LET v == get_vm(name) IN
            \/ /\ DomState(v) = "running"
               /\ running' = running \ {v.uuid}
               /\ ret' = Ret("vm_stop", arg, "none", "", <<Call("destroy", TRUE)>>)
            \/ /\ ret' = Ret("vm_stop", arg, "libvirtError", "", <<Call("destroy", FALSE)>>)
               /\ UNCHANGED running

\* vm_lookup(name)
VmLookup(name) ==
    LET arg == [name |-> name] IN
    /\ ret.n < MaxLifeOps
    /\ UNCHANGED <<connVars, reportVars, hostVars, taskVars, vmVars, poolVars, networks, running, boots, now, lastSample, host_stats>>
    /\ IF ~vm_exists(name)
       THEN /\ ret' = Ret("vm_lookup", arg, "NotFoundError", "", <<>>)
            /\ UNCHANGED <<objstore, stats>>
       ELSE LET v == get_vm(name) IN
            /\ objstore' = vm_lookup_objstore(objstore, v)
            /\ stats' = vm_lookup_stats(stats, v)
            /\ ret' = Ret("vm_lookup", arg, "none", DomState(v), <<>>)

\* The first k paths of a list, as a set.
FirstPaths(paths, k) == {paths[i] : i \in 1..k}

\* vm_delete(name) of an existing domain v. In program order: the screenshot and
\* its row are deleted, the disk paths are read from the descriptor, vm_lookup
\* runs, a running domain is stopped, the domain is undefined, the volumes are
\* deleted one by one and the 'vm' row is deleted (ignore_missing). dom.destroy(),
\* dom.undefine() and each storageVolLookupByPath / vol.delete(0) may raise, and
\* the error leaves vm_delete as it is; a path that names no volume makes the
\* lookup raise.
VmDeleteExisting(arg, v) ==
    LET u == UUIDString(v)
        paths == vm_get_disk_paths(v)
        n == Len(paths)
        wasRunning == DomState(v) = "running"
        os1 == vmscreenshot_delete(objstore, v)
        os2 == vm_lookup_objstore(os1, v)
        st2 == vm_lookup_stats(stats, v)
        head == <<Call("screenshot.delete", TRUE), Call("XMLDesc", TRUE),
                  Call("vm_lookup", TRUE)>>
        stop == IF wasRunning THEN <<Call("destroy", TRUE)>> ELSE <<>>
    IN  /\ stats' = st2
        /\ UNCHANGED boots
        /\ \/ /\ wasRunning
              /\ objstore' = os2
              /\ UNCHANGED <<vms, volumes, running>>
              /\ ret' = Ret("vm_delete", arg, "libvirtError", "",
                            head \o <<Call("destroy", FALSE)>>)
           \/ /\ objstore' = os2
              /\ running' = running \ {v.uuid}
              /\ UNCHANGED <<vms, volumes>>
              /\ ret' = Ret("vm_delete", arg, "libvirtError", "",
                            head \o stop \o <<Call("undefine", FALSE)>>)
           \/ \E k \in 1..n :
              /\ FirstPaths(paths, k - 1) \subseteq volumes
              /\ objstore' = os2
              /\ running' = running \ {v.uuid}
              /\ vms' = vms \ {v}
              /\ volumes' = volumes \ FirstPaths(paths, k - 1)
              /\ ret' = Ret("vm_delete", arg, "libvirtError", "",
                            head \o stop \o <<Call("undefine", TRUE)>>
                                 \o Calls("vol.delete", k - 1) \o <<Call("vol.delete", FALSE)>>)
           \/ /\ FirstPaths(paths, n) \subseteq volumes
              /\ objstore' = OsDelete(os2, "vm", u)
              /\ running' = running \ {v.uuid}
              /\ vms' = vms \ {v}
              /\ volumes' = volumes \ FirstPaths(paths, n)
              /\ ret' = Ret("vm_delete", arg, "none", "",
                            head \o stop \o <<Call("undefine", TRUE)>>
                                 \o Calls("vol.delete", n) \o <<Call("session.delete", TRUE)>>)

\* vm_delete(name): nothing is done for a name no domain has.
VmDelete(name) ==
    LET arg == [name |-> name] IN
    /\ ret.n < MaxLifeOps
    /\ UNCHANGED <<connVars, reportVars, hostVars, taskVars, next_uuid, qemu_stream, poolVars, networks, now, lastSample, host_stats>>
    /\ IF ~vm_exists(name)
       THEN /\ ret' = Ret("vm_delete", arg, "none", "", <<>>)
            /\ UNCHANGED <<vms, volumes, objstore, running, boots, stats>>
       ELSE VmDeleteExisting(arg, get_vm(name))

\* conn.defineXML(xml) for the descriptor d: libvirt refuses a descriptor whose
\* name another domain (another uuid) has.
CanDefine(doms, d) == \A w \in doms : w.name = d.name => w.uuid = d.uuid

\* xmlutils.xml_item_update(new_xml, './name', val)
xml_item_update(xml, val) == [xml EXCEPT !.name = val]

\* _static_vm_update(dom, params) and vm_update(name, params) for an existing
\* domain v; params carries 'name' (hasName, newName) or is empty. The handler
\* of libvirtError uses `conn`, which is bound only after dom.undefine().
VmUpdateExisting(arg, v, hasName, newName) ==
    LET old_xml == v
        new_xml == IF hasName THEN xml_item_update(v, newName) ELSE v
        rest == vms \ {v}
        undef == IF hasName THEN <<Call("undefine", TRUE)>> ELSE <<>>
        base == IF hasName THEN rest ELSE vms
    IN  IF hasName /\ DomState(v) = "running"
        THEN /\ ret' = Ret("vm_update", arg, "InvalidParameter", "", <<>>)
             /\ UNCHANGED vms
        ELSE \/ /\ hasName
                /\ ret' = Ret("vm_update", arg, "UnboundLocalError", "",
                              <<Call("undefine", FALSE)>>)
                /\ UNCHANGED vms
             \/ /\ CanDefine(base, new_xml)
                /\ vms' = rest \cup {new_xml}
                /\ ret' = Ret("vm_update", arg, "none", new_xml.name,
                              undef \o <<Call("defineXML", TRUE)>>)
             \/ /\ vms' = rest \cup {old_xml}
                /\ ret' = Ret("vm_update", arg, "OperationFailed", "",
                              undef \o <<Call("defineXML", FALSE), Call("defineXML", TRUE)>>)
             \/ /\ vms' = base
                /\ ret' = Ret("vm_update", arg, "libvirtError", "",
                              undef \o <<Call("defineXML", FALSE), Call("defineXML", FALSE)>>)

\* vm_update(name, params)
VmUpdate(name, hasName, newName) ==
    LET arg == [name |-> name, hasName |-> hasName, newName |-> newName] IN
    /\ ret.n < MaxLifeOps
    /\ UNCHANGED <<connVars, reportVars, hostVars, taskVars, objstore, volumes, next_uuid, qemu_stream,
                   poolVars, networks, guestVars>>
    /\ IF ~vm_exists(name)
       THEN /\ ret' = Ret("vm_update", arg, "NotFoundError", "", <<>>)
            /\ UNCHANGED vms
       ELSE VmUpdateExisting(arg, get_vm(name), hasName, newName)

\* self.graphics_ports.get(name, None) is None
NoPort == [port |-> 0, dom |-> 0]

\* vnc.new_ws_proxy(port): the port of the websocket proxy opened for the VNC
\* port of the domain. With it the model keeps the uuid of the domain the proxy
\* was opened for (history).
new_ws_proxy(v) == [port |-> 64667, dom |-> v.uuid]

\* vm_lookup(name): the 'graphics' port it reports
vm_lookup_port(gp, v) ==
    IF DomState(v) = "running" THEN DictGet(gp, v.name, NoPort) ELSE NoPort

\* vm_connect(name): _vm_get_graphics reads the type and the port of the
\* graphics device from the descriptor (hasVnc: the type is vnc and a port is
\* there); the proxy's port is kept under the domain's name.
VmConnect(name, hasVnc) ==
    LET arg == [name |-> name, hasVnc |-> hasVnc] IN
    /\ ret.n < MaxLifeOps
    /\ UNCHANGED <<connVars, reportVars, taskVars, objstore, vmVars, poolVars, networks,
                   guestVars, paused, power>>
    /\ IF ~vm_exists(name)
       THEN /\ ret' = Ret("vm_connect", arg, "NotFoundError", "", <<>>)
            /\ UNCHANGED graphics_ports
       ELSE IF hasVnc
       THEN /\ graphics_ports' = DictSet(graphics_ports, name, new_ws_proxy(get_vm(name)))
            /\ ret' = Ret("vm_connect", arg, "none", "", <<Call("new_ws_proxy", TRUE)>>)
       ELSE /\ ret' = Ret("vm_connect", arg, "OperationFailed", "", <<>>)
            /\ UNCHANGED graphics_ports

\* The host's administrator suspends a running domain (virsh suspend):
\* dom.info()[0] is then 3, 'paused' in dom_state_map.
DomSuspend(name) ==
    /\ vm_exists(name)
    /\ get_vm(name).uuid \in running
    /\ running' = running \ {get_vm(name).uuid}
    /\ paused' = paused \cup {get_vm(name).uuid}
    /\ UNCHANGED <<connVars, reportVars, taskVars, objstore, vmVars, poolVars, networks,
                   boots, stats, now, lastSample, host_stats, graphics_ports, power, ret>>

\* The suspended domain is resumed (virsh resume).
DomResume(name) ==
    /\ vm_exists(name)
    /\ get_vm(name).uuid \in paused
    /\ running' = running \cup {get_vm(name).uuid}
    /\ paused' = paused \ {get_vm(name).uuid}
    /\ UNCHANGED <<connVars, reportVars, taskVars, objstore, vmVars, poolVars, networks,
                   boots, stats, now, lastSample, host_stats, graphics_ports, power, ret>>

\* The names the requests use: the two domains, and a name no domain has.
LifeNames == {"tmpl-vm-1", "tmpl-vm-2", "nobody"}
NewNames == {"renamed", "tmpl-vm-2"}

NextLife ==
    \/ \E name \in LifeNames : VmStart(name)
    \/ \E name \in LifeNames : VmStop(name)
    \/ \E name \in LifeNames : VmLookup(name)
    \/ \E name \in LifeNames : VmDelete(name)
    \/ \E name \in LifeNames, newName \in NewNames : VmUpdate(name, TRUE, newName)
    \/ \E name \in LifeNames : VmUpdate(name, FALSE, "")

\* vms_get_list_by_state(state): the names of the domains in that state
vms_get_list_by_state(state) == {v.name : v \in {w \in vms : DomState(w) = state}}

\* The command of host_shutdown and of host_reboot.
PowerCommand(op) == IF op = "host_shutdown" THEN "shutdown -h now" ELSE "reboot"

\* host_shutdown / host_reboot, first part: the running VMs are listed; with any
\* the call fails with OperationFailed, else it goes on to the command.
HostPowerCheck(op) ==
    LET running_vms == vms_get_list_by_state("running") IN
    /\ ret.n < MaxLifeOps
    /\ power.pc = "idle"
    /\ UNCHANGED <<connVars, reportVars, taskVars, objstore, vmVars, poolVars, networks,
                   guestVars, paused, graphics_ports>>
    /\ IF running_vms # {}
       THEN /\ ret' = Ret(op, [name |-> "", seen |-> running_vms], "OperationFailed", "", <<>>)
            /\ UNCHANGED power
       ELSE /\ power' = [power EXCEPT !.pc = "checked", !.op = op, !.seen = running_vms]
            /\ UNCHANGED ret

\* host_shutdown / host_reboot, second part: os.system(command). The model notes
\* with the command the VMs running when it is issued (history).
HostPowerIssue ==
    /\ power.pc = "checked"
    /\ UNCHANGED <<connVars, reportVars, taskVars, objstore, vmVars, poolVars, networks,
                   guestVars, paused, graphics_ports>>
    /\ power' = [pc |-> "idle", op |-> "none", seen |-> {},
                 issued |-> Append(power.issued,
                                   [cmd |-> PowerCommand(power.op),
                                    running |-> vms_get_list_by_state("running")])]
    /\ ret' = Ret(power.op, [name |-> "", seen |-> power.seen], "none", "",
                  <<Call("os.system", TRUE)>>)

\* Shutdown and reboot requests next to requests that start and stop VMs.
NextPower ==
    \/ \E op \in {"host_shutdown", "host_reboot"} : HostPowerCheck(op)
    \/ HostPowerIssue
    \/ \E name \in LifeNames : VmStart(name)
    \/ \E name \in LifeNames : VmStop(name)

\* Consoles: connects, and what may happen to a domain and its name around them.
NextConsole ==
    \/ \E name \in LifeNames, hasVnc \in BOOLEAN : VmConnect(name, hasVnc)
    \/ \E name \in LifeNames : VmStart(name)
    \/ \E name \in LifeNames : VmStop(name)
    \/ \E name \in LifeNames : VmLookup(name)
    \/ \E name \in LifeNames : VmDelete(name)
    \/ \E name \in LifeNames, newName \in NewNames : VmUpdate(name, TRUE, newName)

\* Renames of domains that the host suspends and resumes in between.
NextRename ==
    \/ \E name \in LifeNames : DomSuspend(name)
    \/ \E name \in LifeNames : DomResume(name)
    \/ \E name \in LifeNames, newName \in NewNames : VmUpdate(name, TRUE, newName)
    \/ \E name \in LifeNames : VmUpdate(name, FALSE, "")

\* Two domains with their disks; either may be running; the first has an icon
\* row, and a screenshot row when it was looked up while running.
LifeRows(withShot) ==
    <<[kind |-> "vm", id |-> ToString(0 - 1), val |-> [icon |-> "images/icon.png"]]>>
    \o (IF withShot
        THEN <<[kind |-> "screenshot", id |-> ToString(0 - 1),
                val |-> [uuid |-> ToString(0 - 1)]]>>
        ELSE <<>>)

----------------------------------------------------------------------------
(***************************************************************************)
(* Model._update_guests_stats: the per-guest tick                          *)
(***************************************************************************)

MaxGuestOps == 4
\* The seconds of model time the ticks may cover.
MaxElapsed == 10

\* The clock when the sampling starts (seconds since the epoch).
StartTime == 100

\* GUESTS_STATS_INTERVAL: the seconds between two ticks
GUESTS_STATS_INTERVAL == 5

\* Python floats are taken as exact fractions n/d with d > 0, in lowest terms; a
\* division by a negative number moves the sign to the numerator, and a division
\* by zero is never made here: the callers raise ZeroDivisionError before it.
Abs(x) == IF x < 0 THEN 0 - x ELSE x

RECURSIVE Gcd(_, _)
Gcd(a, b) == IF b = 0 THEN a ELSE Gcd(b, a % b)

Rat(n, d) ==
    LET g == Gcd(Abs(n), Abs(d))
        m == IF d < 0 THEN 0 - n ELSE n
    IN  [n |-> IF m < 0 THEN 0 - ((0 - m) \div g) ELSE m \div g, d |-> Abs(d) \div g]
RatOfInt(i) == [n |-> i, d |-> 1]
RatAdd(a, b) == Rat(a.n * b.d + b.n * a.d, a.d * b.d)
RatSub(a, b) == Rat(a.n * b.d - b.n * a.d, a.d * b.d)
\* a / k for a whole k # 0
RatDivInt(a, k) == Rat(a.n, a.d * k)
RatLess(a, b) == a.n * b.d < b.n * a.d
RatMax(a, b) == IF RatLess(a, b) THEN b ELSE a
RatMin(a, b) == IF RatLess(b, a) THEN b ELSE a
\* int(x): truncation towards zero
RatTrunc(a) == IF a.n >= 0 THEN a.n \div a.d ELSE 0 - ((0 - a.n) \div a.d)

\* d.update(upd)
DictUpdate(d, upd) ==
    [k \in DOMAIN d \cup DOMAIN upd |-> IF k \in DOMAIN upd THEN upd[k] ELSE d[k]]

\* rx_bytes += io[0] ... over the targets of the descriptor
RECURSIVE SumOver(_, _)
SumOver(targets, field) ==
    IF targets = <<>> THEN 0
    ELSE Head(targets)[field] + SumOver(Tail(targets), field)

\* The divisors that turn bytes into KB: 1000 for the network, 1024 for disks.
NET_KB == 1000
DISK_KB == 1024

\* The peak of a window that has none yet: .get('max_net_io', 100)
DEFAULT_PEAK == 100

\* A peak that follows the latest rate.
running_max_latest(currentMax, rate) == RatTrunc(rate)

\* round(max(currentMaxRate, int(rate)), 1): both arguments are whole numbers
running_max(currentMax, rate) ==
    IF RatTrunc(rate) > currentMax THEN RatTrunc(rate) ELSE currentMax

\* A cpu usage that is not divided by the number of vcpus.
get_percentage_cpu_usage_undivided(w, info, seconds) ==
    LET cpuTime == info.cputime - DictGet(w, "cputime", 0)
        percentage == RatMax(RatOfInt(0), RatMin(RatOfInt(100), Rat(cpuTime, seconds)))
    IN  DictUpdate(w, [cputime |-> info.cputime, cpu |-> percentage])

\* A cpu usage without the max(0.0, min(100.0, ...)).
get_percentage_cpu_usage_unclamped(w, info, seconds) ==
    LET cpuTime == info.cputime - DictGet(w, "cputime", 0)
    IN  DictUpdate(w, [cputime |-> info.cputime,
                       cpu |-> RatDivInt(Rat(cpuTime, seconds), info.cpus)])

\* _get_percentage_cpu_usage(vm_uuid, info, seconds). info[4], the cpu time, is
\* counted in units of 10^7 ns, so that (cpuTime * 100.0) / (seconds * 10^9) is
\* cpuTime / seconds.
get_percentage_cpu_usage(w, info, seconds) ==
    LET prevCpuTime == DictGet(w, "cputime", 0)
        cpus == info.cpus
        cpuTime == info.cputime - prevCpuTime
        base == Rat(cpuTime, seconds)
        percentage == RatMax(RatOfInt(0), RatMin(RatOfInt(100), RatDivInt(base, cpus)))
    IN  DictUpdate(w, [cputime |-> info.cputime, cpu |-> percentage])

\* _get_network_io_rate(vm_uuid, dom, seconds)
get_network_io_rate(w, info, seconds) ==
    LET prevNetRxKB == DictGet(w, "netRxKB", RatOfInt(0))
        prevNetTxKB == DictGet(w, "netTxKB", RatOfInt(0))
        currentMaxNetRate == DictGet(w, "max_net_io", DEFAULT_PEAK)
        rx_bytes == SumOver(info.ifaces, "rx")
        tx_bytes == SumOver(info.ifaces, "tx")
        netRxKB == Rat(rx_bytes, NET_KB)
        netTxKB == Rat(tx_bytes, NET_KB)
        rx_stats == RatDivInt(RatSub(netRxKB, prevNetRxKB), seconds)
        tx_stats == RatDivInt(RatSub(netTxKB, prevNetTxKB), seconds)
        rate == RatAdd(rx_stats, tx_stats)
        max_net_io == running_max(currentMaxNetRate, rate)
    IN  DictUpdate(w, [net_io |-> rate, max_net_io |-> max_net_io,
                       netRxKB |-> netRxKB, netTxKB |-> netTxKB])

\* A disk rate computed with the divisor of the network rate.
get_disk_io_rate_net_divisor(w, info, seconds) ==
    LET prevDiskRdKB == DictGet(w, "diskRdKB", RatOfInt(0))
        prevDiskWrKB == DictGet(w, "diskWrKB", RatOfInt(0))
        currentMaxDiskRate == DictGet(w, "max_disk_io", DEFAULT_PEAK)
        diskRdKB == Rat(SumOver(info.disks, "rd"), NET_KB)
        diskWrKB == Rat(SumOver(info.disks, "wr"), NET_KB)
        rate == RatAdd(RatDivInt(RatSub(diskRdKB, prevDiskRdKB), seconds),
                       RatDivInt(RatSub(diskWrKB, prevDiskWrKB), seconds))
    IN  DictUpdate(w, [disk_io |-> rate,
                       max_disk_io |-> running_max(currentMaxDiskRate, rate),
                       diskRdKB |-> diskRdKB, diskWrKB |-> diskWrKB])

\* _get_disk_io_rate(vm_uuid, dom, seconds)
get_disk_io_rate(w, info, seconds) ==
    LET prevDiskRdKB == DictGet(w, "diskRdKB", RatOfInt(0))
        prevDiskWrKB == DictGet(w, "diskWrKB", RatOfInt(0))
        currentMaxDiskRate == DictGet(w, "max_disk_io", DEFAULT_PEAK)
        rd_bytes == SumOver(info.disks, "rd")
        wr_bytes == SumOver(info.disks, "wr")
        diskRdKB == Rat(rd_bytes, DISK_KB)
        diskWrKB == Rat(wr_bytes, DISK_KB)
        rd_stats == RatDivInt(RatSub(diskRdKB, prevDiskRdKB), seconds)
        wr_stats == RatDivInt(RatSub(diskWrKB, prevDiskWrKB), seconds)
        rate == RatAdd(rd_stats, wr_stats)
        max_disk_io == running_max(currentMaxDiskRate, rate)
    IN  DictUpdate(w, [disk_io |-> rate, max_disk_io |-> max_disk_io,
                       diskRdKB |-> diskRdKB, diskWrKB |-> diskWrKB])

\* The body of the loop of _update_guests_stats for a running domain: the window
\* of the domain after the sample taken at `timestamp` with the readings `info`.
sample_running(st, u, timestamp, info) ==
    LET w0 == DictGet(st, u, EmptyDict)
        seconds == timestamp - DictGet(w0, "timestamp", 0)
        w1 == DictUpdate(w0, [timestamp |-> timestamp])
        w2 == get_percentage_cpu_usage(w1, info, seconds)
        w3 == get_network_io_rate(w2, info, seconds)
    IN  get_disk_io_rate(w3, info, seconds)

\* A tick that keeps the window of a domain that is not running.
guest_window_kept(st, v, timestamp, info) ==
    IF DomState(v) # "running" THEN DictGet(st, v.uuid, EmptyDict)
    ELSE sample_running(st, v.uuid, timestamp, info)

\* One turn of the loop of _update_guests_stats: the window of domain v after it.
guest_window(st, v, timestamp, info) ==
    IF DomState(v) # "running" THEN EmptyDict
    ELSE sample_running(st, v.uuid, timestamp, info)

\* What dom.info() and the interfaceStats / blockStats of the targets may read:
\* cpu time, vcpus, and per target the cumulative byte counters.
Readings ==
    { [cputime |-> 0, cpus |-> 1,
       ifaces |-> <<[rx |-> 0, tx |-> 0]>>, disks |-> <<[rd |-> 0, wr |-> 0]>>],
      [cputime |-> 100, cpus |-> 1,
       ifaces |-> <<[rx |-> 1000, tx |-> 2000]>>, disks |-> <<[rd |-> 1024, wr |-> 2048]>>],
      [cputime |-> 300, cpus |-> 2,
       ifaces |-> <<[rx |-> 3000, tx |-> 5000]>>, disks |-> <<[rd |-> 4096, wr |-> 8192]>>],
      [cputime |-> 2000, cpus |-> 2,
       ifaces |-> <<[rx |-> 2000000, tx |-> 1003000], [rx |-> 500000, tx |-> 0]>>,
       disks |-> <<[rd |-> 5120000, wr |-> 0], [rd |-> 1024, wr |-> 1024]>>] }

\* dom.info() of a domain that does not run: no cpu time, no targets read.
NoReading == [cputime |-> 0, cpus |-> 1, ifaces |-> <<>>, disks |-> <<>>]

\* The history kept of a sample: when, in which boot, and the byte totals read.
SampleNote(u, timestamp, info) ==
    [t |-> timestamp, boot |-> BootsOf(u), cputime |-> info.cputime, cpus |-> info.cpus,
     rx |-> SumOver(info.ifaces, "rx"), tx |-> SumOver(info.ifaces, "tx"),
     rd |-> SumOver(info.disks, "rd"), wr |-> SumOver(info.disks, "wr")]

\* sorted(names, key=unicode.lower) over the names the model uses
NameOrder == <<"tmpl-vm-1", "tmpl-vm-2">>

sorted_names(S) ==
    LET known(n) == n \in S IN SelectSeq(NameOrder, known)

\* The exception that ends the sample of a running domain, "none" when it is
\* taken in full: the float divisions by seconds (line 293) and by cpus (line
\* 294) raise ZeroDivisionError on a zero divisor, and dom.interfaceStats(dev)
\* may raise libvirtError (faulty).
sample_exc(st, u, timestamp, info, faulty) ==
    LET seconds == timestamp - DictGet(DictGet(st, u, EmptyDict), "timestamp", 0) IN
    IF seconds = 0 \/ info.cpus = 0 THEN "ZeroDivisionError"
    ELSE IF faulty THEN "libvirtError"
    ELSE "none"

\* The window a sample leaves behind when it ends with exception exc: the
\* timestamp is stored before the cpu usage is computed (line 264), and the cpu
\* usage before interfaceStats is called.
sample_broken(st, u, timestamp, info, exc) ==
    LET w0 == DictGet(st, u, EmptyDict)
        seconds == timestamp - DictGet(w0, "timestamp", 0)
        w1 == DictUpdate(w0, [timestamp |-> timestamp])
    IN  IF exc = "ZeroDivisionError" THEN w1
        ELSE get_percentage_cpu_usage(w1, info, seconds)

\* The loop of _update_guests_stats over the sorted names: there is no try in
\* it, so the first exception ends the tick. Gives self.stats afterwards, the
\* exception that left the method, and the domains sampled in full.
RECURSIVE guests_loop(_, _, _, _, _)
guests_loop(st, names, timestamp, info, fault) ==
    IF names = <<>> THEN [stats |-> st, exc |-> "none", sampled |-> {}]
    ELSE LET v == get_vm(Head(names))
             u == v.uuid
             exc == IF DomState(v) # "running" THEN "none"
                    ELSE sample_exc(st, u, timestamp, info[u], fault[u])
         IN  IF exc # "none"
             THEN [stats |-> DictSet(st, u, sample_broken(st, u, timestamp, info[u], exc)),
                   exc |-> exc, sampled |-> {}]
             ELSE LET rest == guests_loop(
                                 DictSet(st, u, guest_window(st, v, timestamp,
                                     IF u \in running THEN info[u] ELSE NoReading)),
                                 Tail(names), timestamp, info, fault)
                  IN  [stats |-> rest.stats, exc |-> rest.exc,
                       sampled |-> rest.sampled \cup (IF u \in running THEN {u} ELSE {})]

\* _update_guests_stats(), run by the BackgroundTask dt seconds after the clock's
\* last reading (dt <= 0 when the clock stood still or was set back): every
\* domain of vms_get_list() gets its window cleared or sampled, in order, until
\* an exception leaves the method.
UpdateGuestsStats(dt, info, fault) ==
    LET timestamp == now + dt
        out == guests_loop(stats, sorted_names(vms_get_list), timestamp, info, fault)
    IN  /\ ret.n < MaxGuestOps
        /\ timestamp <= StartTime + MaxElapsed
        /\ now' = timestamp
        /\ stats' = out.stats
        /\ lastSample' = [u \in out.sampled |-> SampleNote(u, timestamp, info[u])]
        /\ ret' = Ret("tick", [name |-> "", dt |-> dt, info |-> info, fault |-> fault],
                      out.exc, "", <<>>)
        /\ UNCHANGED <<connVars, reportVars, hostVars, taskVars, objstore, vmVars, poolVars, networks, running, boots, host_stats>>

\* vm_lookup(name): the statistics it reports from the window of the domain
vm_lookup_reported(st, u) ==
    LET vm_stats == DictGet(st, u, EmptyDict) IN
    [cpu_utilization |-> DictGet(vm_stats, "cpu", RatOfInt(0)),
     net_throughput |-> DictGet(vm_stats, "net_io", RatOfInt(0)),
     net_throughput_peak |-> DictGet(vm_stats, "max_net_io", DEFAULT_PEAK),
     io_throughput |-> DictGet(vm_stats, "disk_io", RatOfInt(0)),
     io_throughput_peak |-> DictGet(vm_stats, "max_disk_io", DEFAULT_PEAK)]

TickSteps == {GUESTS_STATS_INTERVAL, 2 * GUESTS_STATS_INTERVAL}

\* No stats call raises.
NoFault == [u \in {v.uuid : v \in vms} |-> FALSE]

GuestNames == {"tmpl-vm-1", "tmpl-vm-2"}

NextGuests ==
    \/ \E dt \in TickSteps, info \in [{v.uuid : v \in vms} \cap running -> Readings] :
            UpdateGuestsStats(dt, info, NoFault)
    \/ \E name \in GuestNames : VmStart(name)
    \/ \E name \in GuestNames : VmStop(name)
    \/ \E name \in GuestNames : VmLookup(name)

----------------------------------------------------------------------------
(***************************************************************************)
(* Model._update_host_stats and Model.hoststats_lookup                     *)
(***************************************************************************)

MaxSamplerOps == 3

\* HOST_STATS_INTERVAL: the seconds between two host ticks
HOST_STATS_INTERVAL == 1

\* self.host_stats[key] for each key of keys, on a defaultdict(int): reading a
\* missing key stores 0 under it.
host_touch(hs, keys) ==
    [k \in DOMAIN hs \cup keys |-> IF k \in DOMAIN hs THEN hs[k] ELSE 0]

\* int(float(delta) / seconds + 0.5)
rounded_rate(delta, seconds) == RatTrunc(RatAdd(Rat(delta, seconds), Rat(1, 2)))

\* _get_host_disk_io_rate(seconds), for seconds # 0
get_host_disk_io_rate(hs, reading, seconds) ==
    LET h == host_touch(hs, {"disk_read_bytes", "disk_write_bytes"}) IN
    DictUpdate(h, [disk_read_rate |-> rounded_rate(reading.rd - h["disk_read_bytes"], seconds),
                   disk_write_rate |-> rounded_rate(reading.wr - h["disk_write_bytes"], seconds),
                   disk_read_bytes |-> reading.rd,
                   disk_write_bytes |-> reading.wr])

\* _get_host_network_io_rate(seconds), for seconds # 0
get_host_network_io_rate(hs, reading, seconds) ==
    LET h == host_touch(hs, {"net_recv_bytes", "net_sent_bytes"}) IN
    DictUpdate(h, [net_recv_rate |-> rounded_rate(reading.recv - h["net_recv_bytes"], seconds),
                   net_sent_rate |-> rounded_rate(reading.sent - h["net_sent_bytes"], seconds),
                   net_recv_bytes |-> reading.recv,
                   net_sent_bytes |-> reading.sent])

\* _update_host_stats() at `timestamp`: the map afterwards and the exception that
\* left the method. The timestamp is stored and the previous byte counts are
\* read before the first division by seconds, which raises when seconds is 0.
update_host_stats(hs, timestamp, reading, uptime) ==
    LET h0 == host_touch(hs, {"timestamp"})
        preTimeStamp == h0["timestamp"]
        seconds == IF preTimeStamp # 0 THEN timestamp - preTimeStamp ELSE uptime
        h1 == DictUpdate(h0, [timestamp |-> timestamp])
    IN  IF seconds = 0
        THEN [host_stats |-> host_touch(h1, {"disk_read_bytes", "disk_write_bytes"}),
              exc |-> "ZeroDivisionError"]
        ELSE [host_stats |->
                DictUpdate(get_host_network_io_rate(
                               get_host_disk_io_rate(h1, reading, seconds), reading, seconds),
                           [cpu_utilization |-> reading.cpu, memory |-> reading.memory]),
              exc |-> "none"]

\* What psutil reads: cumulative disk and network bytes, cpu percent, memory.
HostReadings ==
    { [rd |-> 1000, wr |-> 2000, recv |-> 300, sent |-> 400, cpu |-> 10, memory |-> 1],
      [rd |-> 1500, wr |-> 2000, recv |-> 307, sent |-> 400, cpu |-> 20, memory |-> 2] }

\* float(open("/proc/uptime").readline().split()[0])
Uptime == 50

\* The host tick, run by its BackgroundTask dt seconds after the clock's last reading.
UpdateHostStats(dt, reading) ==
    LET timestamp == now + dt
        out == update_host_stats(host_stats, timestamp, reading, Uptime)
    IN  /\ ret.n < MaxSamplerOps
        /\ now' = timestamp
        /\ host_stats' = out.host_stats
        /\ ret' = Ret("host_tick", [name |-> "", dt |-> dt], out.exc, "", <<>>)
        /\ UNCHANGED <<connVars, reportVars, hostVars, taskVars, objstore, vmVars, poolVars, networks,
                       running, boots, stats, lastSample>>

\* hoststats_lookup(): every rate is read with self.host_stats[key]
HoststatsLookup ==
    LET h == host_touch(host_stats, {"cpu_utilization", "disk_read_rate", "disk_write_rate",
                                     "net_recv_rate", "net_sent_rate"})
    IN  /\ ret.n < MaxSamplerOps
        /\ host_stats' = h
        /\ ret' = Ret("hoststats_lookup", [name |-> ""], "none",
                      [cpu_utilization |-> h["cpu_utilization"],
                       disk_read_rate |-> h["disk_read_rate"],
                       disk_write_rate |-> h["disk_write_rate"],
                       net_recv_rate |-> h["net_recv_rate"],
                       net_sent_rate |-> h["net_sent_rate"]], <<>>)
        /\ UNCHANGED <<connVars, reportVars, hostVars, taskVars, objstore, vmVars, poolVars, networks,
                       running, boots, stats, now, lastSample>>

\* The steps of a clock that may stand still or be set back between two ticks.
GuestClockSteps == {0 - GUESTS_STATS_INTERVAL, 0, GUESTS_STATS_INTERVAL}
HostClockSteps == {0 - HOST_STATS_INTERVAL, 0, HOST_STATS_INTERVAL}

\* Readings of running domains, one of them of a domain that reports no vcpu.
SamplerReadings ==
    { r \in Readings : r.cputime = 300 }
    \cup { [cputime |-> 300, cpus |-> 0,
            ifaces |-> <<[rx |-> 3000, tx |-> 5000]>>, disks |-> <<[rd |-> 4096, wr |-> 8192]>>] }

\* At most one domain whose interfaceStats raises.
Faults ==
    { f \in [{v.uuid : v \in vms} -> BOOLEAN] : Cardinality({u \in DOMAIN f : f[u]}) <= 1 }

NextSampler ==
    \/ \E dt \in GuestClockSteps, fault \in Faults,
          info \in [{v.uuid : v \in vms} \cap running -> SamplerReadings] :
            ret.n < MaxSamplerOps /\ UpdateGuestsStats(dt, info, fault)
    \/ \E dt \in HostClockSteps, reading \in HostReadings : UpdateHostStats(dt, reading)
    \/ HoststatsLookup
    \/ \E name \in GuestNames : VmStop(name)
    \/ \E name \in GuestNames : VmLookup(name)

----------------------------------------------------------------------------
(***************************************************************************)
(* Model.storagepools_create and Model._do_deep_scan                       *)
(***************************************************************************)

MaxPoolOps == 2

ISO_POOL_NAME == "kimchi_isos"

PoolNames == {"p", "q", ISO_POOL_NAME}
PoolTypes == {"dir", "netfs", "logical", "kimchi-iso"}

\* storagepools_get_list(): conn.listStoragePools() + conn.listDefinedStoragePools()
storagepools_get_list ==
    {pools[i].name : i \in DOMAIN pools}

\* _get_pool_xml: the mount point made for a netfs or a logical pool.
PoolMountDir(type, name) ==
    IF type = "netfs" THEN {<<"/var/lib/kimchi/nfs_mount/", name>>}
    ELSE IF type = "logical" THEN {<<"/var/lib/kimchi/logical_mount/", name>>}
    ELSE {}

Pool(name, type, persistent, active, built, autostart) ==
    [name |-> name, type |-> type, persistent |-> persistent, active |-> active,
     built |-> built, autostart |-> autostart]

\* storagepools_create(params) with params['name'] = name, params['type'] = type
\* and the other keys of the type present. A kimchi-iso request runs
\* _do_deep_scan first: it rewrites the type to 'dir', prepares the scan
\* directory, submits the scan task and stores the name -> task id linkage.
\* _get_pool_xml then makes the mount point of a netfs or logical pool. Only then
\* is the name looked up among the pools. The calls on the control plane
\* (storagePoolCreateXML, storagePoolDefineXML, build, setAutostart) may raise.
StoragepoolsCreate(name, type) ==
    LET arg == [name |-> name, type |-> type]
        scan == type = "kimchi-iso"
        task_id == next_taskid
        xmlType == IF scan THEN "dir" ELSE type
        scanned == IF scan
                   THEN OsStore(SaveTask(objstore, NewTask(task_id, "")),
                                "scanning", name, [task_id |-> task_id])
                   ELSE objstore
    IN  /\ ret.n < MaxPoolOps
        /\ UNCHANGED <<connVars, reportVars, hostVars, guestVars, rq, vmVars, networks>>
        /\ IF name = ISO_POOL_NAME
           THEN /\ ret' = Ret("storagepools_create", arg, "InvalidOperation", "", <<>>)
                /\ UNCHANGED <<next_taskid, tasks, objstore, poolVars>>
           ELSE /\ scanDirs' = IF scan THEN scanDirs \cup {name} ELSE scanDirs
                /\ next_taskid' = IF scan THEN next_taskid + 1 ELSE next_taskid
                /\ tasks' = IF scan THEN Append(tasks, NewTask(task_id, "")) ELSE tasks
                /\ objstore' = scanned
                /\ mountDirs' = mountDirs \cup PoolMountDir(xmlType, name)
                /\ IF name \in storagepools_get_list
                   THEN /\ ret' = Ret("storagepools_create", arg, "InvalidOperation", "", <<>>)
                        /\ UNCHANGED pools
                   ELSE IF scan
                   THEN \/ /\ pools' = Append(pools, Pool(name, xmlType, FALSE, TRUE, FALSE, FALSE))
                           /\ ret' = Ret("storagepools_create", arg, "none", name,
                                         <<Call("storagePoolCreateXML", TRUE)>>)
                        \/ /\ UNCHANGED pools
                           /\ ret' = Ret("storagepools_create", arg, "OperationFailed", "",
                                         <<Call("storagePoolCreateXML", FALSE)>>)
                   ELSE \/ /\ UNCHANGED pools
                           /\ ret' = Ret("storagepools_create", arg, "OperationFailed", "",
                                         <<Call("storagePoolDefineXML", FALSE)>>)
                        \/ /\ xmlType \in {"logical", "dir"}
                           /\ \/ /\ pools' = Append(pools, Pool(name, xmlType, TRUE, FALSE, FALSE, FALSE))
                                 /\ ret' = Ret("storagepools_create", arg, "OperationFailed", "",
                                               <<Call("storagePoolDefineXML", TRUE),
                                                 Call("build", FALSE)>>)
                              \/ /\ pools' = Append(pools, Pool(name, xmlType, TRUE, FALSE, TRUE, FALSE))
                                 /\ ret' = Ret("storagepools_create", arg, "OperationFailed", "",
                                               <<Call("storagePoolDefineXML", TRUE),
                                                 Call("build", TRUE), Call("setAutostart", FALSE)>>)
                              \/ /\ pools' = Append(pools, Pool(name, xmlType, TRUE, FALSE, TRUE, TRUE))
                                 /\ ret' = Ret("storagepools_create", arg, "none", name,
                                               <<Call("storagePoolDefineXML", TRUE),
                                                 Call("build", TRUE), Call("setAutostart", TRUE)>>)
                        \/ /\ xmlType \notin {"logical", "dir"}
                           /\ \/ /\ pools' = Append(pools, Pool(name, xmlType, TRUE, FALSE, FALSE, FALSE))
                                 /\ ret' = Ret("storagepools_create", arg, "none", name,
                                               <<Call("storagePoolDefineXML", TRUE),
                                                 Call("setAutostart", TRUE)>>)
                              \/ /\ pools' = Append(pools, Pool(name, xmlType, TRUE, FALSE, FALSE, FALSE))
                                 /\ ret' = Ret("storagepools_create", arg, "OperationFailed", "",
                                               <<Call("storagePoolDefineXML", TRUE),
                                                 Call("setAutostart", FALSE)>>)

HasPool(name) == \E i \in DOMAIN pools : pools[i].name = name
PoolIndex(name) == CHOOSE i \in DOMAIN pools : pools[i].name = name

\* The pools without the one named: what is left after pool.undefine(), or after
\* pool.destroy() of a transient pool (a pool made by storagePoolCreateXML has
\* no definition to fall back to).
PoolsWithout(name) ==
    LET Others(r) == r.name # name IN SelectSeq(pools, Others)

\* storagepool_activate(name): pool.create(0)
StoragepoolActivate(name) ==
    LET arg == [name |-> name] IN
    /\ ret.n < MaxPoolOps
    /\ UNCHANGED <<connVars, reportVars, hostVars, guestVars, taskVars, objstore, vmVars, mountDirs, scanDirs, networks>>
    /\ IF ~HasPool(name)
       THEN /\ ret' = Ret("storagepool_activate", arg, "NotFoundError", "", <<>>)
            /\ UNCHANGED pools
       ELSE \/ /\ ~pools[PoolIndex(name)].active
               /\ ret' = Ret("storagepool_activate", arg, "none", "", <<Call("create", TRUE)>>)
               /\ pools' = [pools EXCEPT ![PoolIndex(name)].active = TRUE]
            \/ /\ ret' = Ret("storagepool_activate", arg, "OperationFailed", "",
                             <<Call("create", FALSE)>>)
               /\ UNCHANGED pools

\* storagepool_deactivate(name): pool.destroy()
StoragepoolDeactivate(name) ==
    LET arg == [name |-> name] IN
    /\ ret.n < MaxPoolOps
    /\ UNCHANGED <<connVars, reportVars, hostVars, guestVars, taskVars, objstore, vmVars, mountDirs, scanDirs, networks>>
    /\ IF ~HasPool(name)
       THEN /\ ret' = Ret("storagepool_deactivate", arg, "NotFoundError", "", <<>>)
            /\ UNCHANGED pools
       ELSE \/ /\ pools[PoolIndex(name)].active
               /\ ret' = Ret("storagepool_deactivate", arg, "none", "", <<Call("destroy", TRUE)>>)
               /\ pools' = IF pools[PoolIndex(name)].persistent
                           THEN [pools EXCEPT ![PoolIndex(name)].active = FALSE]
                           ELSE PoolsWithout(name)
            \/ /\ ret' = Ret("storagepool_deactivate", arg, "OperationFailed", "",
                             <<Call("destroy", FALSE)>>)
               /\ UNCHANGED pools

\* A storagepool_delete that does not ask whether the pool is active.
StoragepoolDeleteAnyState(name) ==
    LET arg == [name |-> name] IN
    /\ ret.n < MaxPoolOps
    /\ UNCHANGED <<connVars, reportVars, hostVars, guestVars, taskVars, objstore, vmVars, mountDirs, scanDirs, networks>>
    /\ IF ~HasPool(name)
       THEN /\ ret' = Ret("storagepool_delete", arg, "NotFoundError", "", <<>>)
            /\ UNCHANGED pools
       ELSE /\ ret' = Ret("storagepool_delete", arg, "none", "", <<Call("undefine", TRUE)>>)
            /\ pools' = PoolsWithout(name)

\* storagepool_delete(name): refused while the pool is active, else pool.undefine()
StoragepoolDelete(name) ==
    LET arg == [name |-> name] IN
    /\ ret.n < MaxPoolOps
    /\ UNCHANGED <<connVars, reportVars, hostVars, guestVars, taskVars, objstore, vmVars, mountDirs, scanDirs, networks>>
    /\ IF ~HasPool(name)
       THEN /\ ret' = Ret("storagepool_delete", arg, "NotFoundError", "", <<>>)
            /\ UNCHANGED pools
       ELSE IF pools[PoolIndex(name)].active
       THEN /\ ret' = Ret("storagepool_delete", arg, "InvalidOperation", "", <<>>)
            /\ UNCHANGED pools
       ELSE \/ /\ ret' = Ret("storagepool_delete", arg, "none", "", <<Call("undefine", TRUE)>>)
               /\ pools' = PoolsWithout(name)
            \/ /\ ret' = Ret("storagepool_delete", arg, "OperationFailed", "",
                             <<Call("undefine", FALSE)>>)
               /\ UNCHANGED pools

\* A storagepool_lookup that does not look for the 'scanning' linkage.
storagepool_lookup_plain(ps, os, name) ==
    LET pool == ps[CHOOSE i \in DOMAIN ps : ps[i].name = name] IN
    [state |-> IF pool.active THEN "active" ELSE "inactive",
     type |-> pool.type, autostart |-> pool.autostart, task_id |-> ""]

\* storagepool_lookup(name) of an existing pool: state, type and autostart; a
\* pool that is not persistent and has a 'scanning' row is reported as
\* kimchi-iso with str(task_id).
storagepool_lookup(ps, os, name) ==
    LET pool == ps[CHOOSE i \in DOMAIN ps : ps[i].name = name]
        deep == ~pool.persistent /\ OsHas(os, "scanning", name)
    IN  [state |-> IF pool.active THEN "active" ELSE "inactive",
         type |-> IF deep THEN "kimchi-iso" ELSE pool.type,
         autostart |-> pool.autostart,
         task_id |-> IF deep THEN ToString(OsGet(os, "scanning", name).task_id) ELSE ""]

\* storagepool_lookup(name)
StoragepoolLookup(name) ==
    LET arg == [name |-> name] IN
    /\ ret.n < MaxPoolOps
    /\ UNCHANGED <<connVars, reportVars, hostVars, guestVars, taskVars, objstore, vmVars, poolVars, networks>>
    /\ IF ~HasPool(name)
       THEN ret' = Ret("storagepool_lookup", arg, "NotFoundError", "", <<>>)
       ELSE ret' = Ret("storagepool_lookup", arg, "none",
                       storagepool_lookup(pools, objstore, name), <<>>)

NextPool ==
    \/ \E name \in PoolNames : StoragepoolLookup(name)
    \/ \E name \in PoolNames, type \in PoolTypes : StoragepoolsCreate(name, type)
    \/ \E name \in PoolNames : StoragepoolActivate(name)
    \/ \E name \in PoolNames : StoragepoolDeactivate(name)
    \/ \E name \in PoolNames : StoragepoolDelete(name)

\* The host may come with a started pool: a defined one, or the transient pool
\* of a deep scan.
PoolPopulations ==
    {<<>>,
     <<Pool("p", "dir", TRUE, TRUE, TRUE, TRUE)>>,
     <<Pool("q", "dir", FALSE, TRUE, FALSE, FALSE)>>}

----------------------------------------------------------------------------
(***************************************************************************)
(* Model.networks_create, network_activate / deactivate / delete,          *)
(* Model.templates_create, template_delete                                 *)
(***************************************************************************)

MaxNetOps == 3

NetNames == {"n1", "n2"}
Connections == {"nat", "isolated", "bridge"}
\* params.get('subnet', ''): absent, well-formed, or malformed.
Subnets == {"192.168.100.0/24", "192.168.101.0/24"}
SubnetInputs == {"", "192.168.100.0/24", "not-a-subnet"}
\* params['interface']: absent, a bridge, a bare NIC, or a device of another kind.
IfaceInputs == {"", "br0", "eth0", "lo"}
IsBridge(i) == i = "br0"
IsBareNicOrBonding(i) == i = "eth0"

\* Addresses are those of 192.168.0.0/16, held as the number made of their last
\* two octets; a network address is such a number with a prefix length >= 16.
AddressForms ==
    { [ip |-> 100 * 256, prefixlen |-> 24],         \* 192.168.100.0/24
      [ip |-> 101 * 256, prefixlen |-> 24],         \* 192.168.101.0/24
      [ip |-> 100 * 256 + 100, prefixlen |-> 24],   \* 192.168.100.100/24
      [ip |-> 102 * 256 + 8, prefixlen |-> 30],     \* 192.168.102.8/30
      [ip |-> 102 * 256 + 16, prefixlen |-> 31] }   \* 192.168.102.16/31

\* The forms above and those that _set_network_subnet makes of them (ip.ip + 1).
KnownNets ==
    AddressForms \cup {[ip |-> f.ip + 1, prefixlen |-> f.prefixlen] : f \in AddressForms}

\* str(ip) of an ipaddr address and of an ipaddr network
FormatAddress(a) == "192.168." \o ToString(a \div 256) \o "." \o ToString(a % 256)
FormatNet(f) == FormatAddress(f.ip) \o "/" \o ToString(f.prefixlen)

\* ipaddr.IPNetwork(netaddr): the address and prefix length written in netaddr;
\* ValueError (ok = FALSE) for a text that is no network address.
IPNetwork(netaddr) ==
    IF \E f \in KnownNets : FormatNet(f) = netaddr
    THEN LET f == CHOOSE g \in KnownNets : FormatNet(g) = netaddr
         IN  [ok |-> TRUE, ip |-> f.ip, prefixlen |-> f.prefixlen]
    ELSE [ok |-> FALSE, ip |-> 0, prefixlen |-> 0]

RECURSIVE Pow2(_)
Pow2(k) == IF k = 0 THEN 1 ELSE 2 * Pow2(k - 1)

\* ip.numhosts, ip.network and ip.broadcast of an ipaddr network
NumHosts(f) == Pow2(32 - f.prefixlen)
NetworkAddress(f) == f.ip - (f.ip % NumHosts(f))
BroadcastAddress(f) == NetworkAddress(f) + NumHosts(f) - 1

\* _set_network_subnet, from ipaddr.IPNetwork(netaddr) on, for a well-formed
\* netaddr: params['net'] and params['dhcp']['range'].
set_network_subnet(netaddr) ==
    LET ip == IPNetwork(netaddr)
        ipip == IF ip.ip = NetworkAddress(ip) THEN ip.ip + 1 ELSE ip.ip
    IN  [net |-> FormatNet([ip |-> ipip, prefixlen |-> ip.prefixlen]),
         dhcp |-> [start |-> FormatAddress(ipip + NumHosts(ip) \div 2),
                   end |-> FormatAddress(ipip + NumHosts(ip) - 2)]]

\* The DHCP range of a network that has none.
NoDhcp == [start |-> "", end |-> ""]

\* A network of libvirt: subnet is the address/prefix of its <ip> element, dhcp
\* its <range>; both are empty for a bridged network.
NetworkWithDhcp(name, connection, subnet, dhcp, iface, active, autostart) ==
    [name |-> name, connection |-> connection, subnet |-> subnet, dhcp |-> dhcp,
     interface |-> iface, active |-> active, autostart |-> autostart]

Network(name, connection, subnet, iface, active, autostart) ==
    NetworkWithDhcp(name, connection,
                    IF subnet = "" THEN "" ELSE set_network_subnet(subnet).net,
                    IF subnet = "" THEN NoDhcp ELSE set_network_subnet(subnet).dhcp,
                    iface, active, autostart)

ActiveNet(r) == r.active
InactiveNet(r) == ~r.active
NamesOf(q) == [i \in DOMAIN q |-> q[i].name]

\* networks_get_list(): sorted(conn.listNetworks() + conn.listDefinedNetworks());
\* the order of the names is left as libvirt gives them.
networks_get_list ==
    NamesOf(SelectSeq(networks, ActiveNet)) \o NamesOf(SelectSeq(networks, InactiveNet))

HasNetwork(name) == \E i \in DOMAIN networks : networks[i].name = name
NetIndex(name) == CHOOSE i \in DOMAIN networks : networks[i].name = name

\* A host on which no network claims an interface.
get_all_networks_interfaces_none == {}

\* _get_all_networks_interfaces(): the interfaces the existing networks claim
\* (forward interface or physical function, and bridge).
get_all_networks_interfaces ==
    {networks[i].interface : i \in DOMAIN networks} \ {""}

\* netinfo.all_favored_interfaces(): the bridges, bare NICs and bondings of the host
all_favored_interfaces == {i \in IfaceInputs : IsBridge(i) \/ IsBareNicOrBonding(i)}

\* interfaces_get_list()
interfaces_get_list == all_favored_interfaces \ get_all_networks_interfaces

UsedSubnets == {networks[i].subnet : i \in DOMAIN networks} \ {""}

\* The addresses of a network, from its network address to its broadcast address.
NetBlock(netaddr) ==
    [lo |-> NetworkAddress(IPNetwork(netaddr)), hi |-> BroadcastAddress(IPNetwork(netaddr))]
Overlaps(a, b) == a.lo <= b.hi /\ b.lo <= a.hi

\* _set_network_subnet: the subnet given, else a free one (knetwork.get_one_free_network:
\* one of its candidates that overlaps no subnet in use); none may be free.
FreeSubnets ==
    {sn \in Subnets : \A u \in UsedSubnets : ~Overlaps(NetBlock(sn), NetBlock(u))}

\* conn.networkDefineXML(xml) and network.setAutostart(True); libvirt refuses to
\* define a second network under a name in use.
NetworksDefine(arg, name, connection, subnet, iface) ==
    \/ /\ ~HasNetwork(name)
       /\ networks' = Append(networks, Network(name, connection, subnet, iface, FALSE, TRUE))
       /\ ret' = Ret("networks_create", arg, "none", name,
                     <<Call("networkDefineXML", TRUE), Call("setAutostart", TRUE)>>)
    \/ /\ ~HasNetwork(name)
       /\ networks' = Append(networks, Network(name, connection, subnet, iface, FALSE, FALSE))
       /\ ret' = Ret("networks_create", arg, "OperationFailed", "",
                     <<Call("networkDefineXML", TRUE), Call("setAutostart", FALSE)>>)
    \/ /\ UNCHANGED networks
       /\ ret' = Ret("networks_create", arg, "OperationFailed", "",
                     <<Call("networkDefineXML", FALSE)>>)

\* networks_create after the name check: forward mode, subnet, bridge, definition.
NetworksCreateBody(arg, name, connection, subnetIn, iface) ==
    LET Fail(exc) == /\ ret' = Ret("networks_create", arg, exc, "", <<>>)
                     /\ UNCHANGED networks
    IN  IF connection \in {"nat", "isolated"}
        THEN IF subnetIn = ""
             THEN IF FreeSubnets = {} THEN Fail("OperationFailed")
                  ELSE \E sn \in FreeSubnets : NetworksDefine(arg, name, connection, sn, "")
             ELSE IF ~IPNetwork(subnetIn).ok THEN Fail("InvalidParameter")
                  ELSE NetworksDefine(arg, name, connection, subnetIn, "")
        ELSE IF iface = "" THEN Fail("MissingParameter")
             ELSE IF iface \in get_all_networks_interfaces THEN Fail("InvalidParameter")
             ELSE IF ~IsBridge(iface) /\ ~IsBareNicOrBonding(iface) THEN Fail("InvalidParameter")
             ELSE NetworksDefine(arg, name, connection, "", iface)

\* A networks_create that does not look the name up first.
NetworksCreateUnchecked(name, connection, subnetIn, iface) ==
    LET arg == [name |-> name, connection |-> connection, subnet |-> subnetIn,
                interface |-> iface] IN
    /\ ret.n < MaxNetOps
    /\ UNCHANGED <<connVars, reportVars, hostVars, guestVars, taskVars, objstore, vmVars, poolVars>>
    /\ NetworksCreateBody(arg, name, connection, subnetIn, iface)

\* networks_create(params)
NetworksCreate(name, connection, subnetIn, iface) ==
    LET arg == [name |-> name, connection |-> connection, subnet |-> subnetIn,
                interface |-> iface] IN
    /\ ret.n < MaxNetOps
    /\ UNCHANGED <<connVars, reportVars, hostVars, guestVars, taskVars, objstore, vmVars, poolVars>>
    /\ IF name \in SeqRange(networks_get_list)
       THEN /\ ret' = Ret("networks_create", arg, "InvalidOperation", "", <<>>)
            /\ UNCHANGED networks
       ELSE NetworksCreateBody(arg, name, connection, subnetIn, iface)

\* network_activate(name): network.create(); an error of libvirt is not caught.
NetworkActivate(name) ==
    LET arg == [name |-> name] IN
    /\ ret.n < MaxNetOps
    /\ UNCHANGED <<connVars, reportVars, hostVars, guestVars, taskVars, objstore, vmVars, poolVars>>
    /\ IF ~HasNetwork(name)
       THEN /\ ret' = Ret("network_activate", arg, "NotFoundError", "", <<>>)
            /\ UNCHANGED networks
       ELSE IF networks[NetIndex(name)].active
       THEN /\ ret' = Ret("network_activate", arg, "libvirtError", "", <<Call("create", FALSE)>>)
            /\ UNCHANGED networks
       ELSE \/ /\ ret' = Ret("network_activate", arg, "none", "", <<Call("create", TRUE)>>)
               /\ networks' = [networks EXCEPT ![NetIndex(name)].active = TRUE]
            \/ /\ ret' = Ret("network_activate", arg, "libvirtError", "",
                             <<Call("create", FALSE)>>)
               /\ UNCHANGED networks

\* network_deactivate(name): network.destroy()
NetworkDeactivate(name) ==
    LET arg == [name |-> name] IN
    /\ ret.n < MaxNetOps
    /\ UNCHANGED <<connVars, reportVars, hostVars, guestVars, taskVars, objstore, vmVars, poolVars>>
    /\ IF ~HasNetwork(name)
       THEN /\ ret' = Ret("network_deactivate", arg, "NotFoundError", "", <<>>)
            /\ UNCHANGED networks
       ELSE IF ~networks[NetIndex(name)].active
       THEN /\ ret' = Ret("network_deactivate", arg, "libvirtError", "", <<Call("destroy", FALSE)>>)
            /\ UNCHANGED networks
       ELSE \/ /\ ret' = Ret("network_deactivate", arg, "none", "", <<Call("destroy", TRUE)>>)
               /\ networks' = [networks EXCEPT ![NetIndex(name)].active = FALSE]
            \/ /\ ret' = Ret("network_deactivate", arg, "libvirtError", "",
                             <<Call("destroy", FALSE)>>)
               /\ UNCHANGED networks

\* A network_delete that does not ask whether the network is active.
NetworkDeleteAnyState(name) ==
    LET arg == [name |-> name]
        Others(r) == r.name # name
    IN
    /\ ret.n < MaxNetOps
    /\ UNCHANGED <<connVars, reportVars, hostVars, guestVars, taskVars, objstore, vmVars, poolVars>>
    /\ IF ~HasNetwork(name)
       THEN /\ ret' = Ret("network_delete", arg, "NotFoundError", "", <<>>)
            /\ UNCHANGED networks
       ELSE /\ ret' = Ret("network_delete", arg, "none", "", <<Call("undefine", TRUE)>>)
            /\ networks' = SelectSeq(networks, Others)

\* network_delete(name): refused while the network is active, else network.undefine()
NetworkDelete(name) ==
    LET arg == [name |-> name]
        Others(r) == r.name # name
    IN
    /\ ret.n < MaxNetOps
    /\ UNCHANGED <<connVars, reportVars, hostVars, guestVars, taskVars, objstore, vmVars, poolVars>>
    /\ IF ~HasNetwork(name)
       THEN /\ ret' = Ret("network_delete", arg, "NotFoundError", "", <<>>)
            /\ UNCHANGED networks
       ELSE IF networks[NetIndex(name)].active
       THEN /\ ret' = Ret("network_delete", arg, "InvalidOperation", "", <<>>)
            /\ UNCHANGED networks
       ELSE \/ /\ ret' = Ret("network_delete", arg, "none", "", <<Call("undefine", TRUE)>>)
               /\ networks' = SelectSeq(networks, Others)
            \/ /\ ret' = Ret("network_delete", arg, "libvirtError", "",
                             <<Call("undefine", FALSE)>>)
               /\ UNCHANGED networks

TemplateParamNames == {"tmpl", "t2"}
\* The template parameters a request may carry (the number of disks tells them apart).
TemplateInfos == {[disks |-> 1, icon |-> "", iso_stream |-> FALSE],
                  [disks |-> 2, icon |-> "images/icon.png", iso_stream |-> FALSE]}

\* templates_create(params): inside one object-store session, the name is looked
\* up in session.get_list('template'), the template is built (LibvirtVMTemplate
\* may reject the parameters) and its info stored.
TemplatesCreate(name, info, paramsOk) ==
    LET arg == [name |-> name] IN
    /\ ret.n < MaxNetOps
    /\ UNCHANGED <<connVars, reportVars, hostVars, guestVars, taskVars, vmVars, poolVars, networks>>
    /\ IF name \in SeqRange(OsGetList(objstore, "template"))
       THEN /\ ret' = Ret("templates_create", arg, "InvalidOperation", "", <<>>)
            /\ UNCHANGED objstore
       ELSE IF ~paramsOk
       THEN /\ ret' = Ret("templates_create", arg, "InvalidParameter", "", <<>>)
            /\ UNCHANGED objstore
       ELSE /\ ret' = Ret("templates_create", arg, "none", name, <<>>)
            /\ objstore' = OsStore(objstore, "template", name, info)

\* template_delete(name): session.delete('template', name)
TemplateDelete(name) ==
    LET arg == [name |-> name] IN
    /\ ret.n < MaxNetOps
    /\ UNCHANGED <<connVars, reportVars, hostVars, guestVars, taskVars, vmVars, poolVars, networks>>
    /\ IF ~OsHas(objstore, "template", name)
       THEN /\ ret' = Ret("template_delete", arg, "NotFoundError", "", <<>>)
            /\ UNCHANGED objstore
       ELSE /\ ret' = Ret("template_delete", arg, "none", "", <<>>)
            /\ objstore' = OsDelete(objstore, "template", name)

MaxTemplateOps == 3

\* The keys of the info of a template that the object store keeps.
TemplateInfoKeys == {"disks", "icon", "iso_stream"}

\* t.info of the template stored under a name: the record and its 'name'.
template_lookup(os, name) == DictUpdate(OsGet(os, "template", name), [name |-> name])

\* The row templates_create stores for the info t.
template_row(t) == [k \in TemplateInfoKeys |-> t[k]]

\* A template_update that creates the updated template without deleting the
\* old one first.
template_update_kept(os, name, params, poolValid, newOk) ==
    LET new_t == DictUpdate(template_lookup(os, name), params) IN
    IF ~poolValid THEN [os |-> os, exc |-> "InvalidParameter", val |-> "", log |-> <<>>]
    ELSE IF newOk
    THEN [os |-> OsStore(os, "template", new_t.name, template_row(new_t)),
          exc |-> "none", val |-> new_t.name,
          log |-> <<Call("templates_create", TRUE)>>]
    ELSE [os |-> os, exc |-> "InvalidParameter", val |-> "",
          log |-> <<Call("templates_create", FALSE)>>]

\* template_update(name, params) of an existing template: new_t is a copy of the
\* old info updated with params; the storage pool of new_t is looked up
\* (poolValid); the old template is deleted and new_t created, which fails when
\* its name is taken or LibvirtVMTemplate rejects it (newOk); on a failure the
\* old info is created again and the error raised again.
template_update(os, name, params, poolValid, newOk) ==
    LET old_t == template_lookup(os, name)
        new_t == DictUpdate(old_t, params)
        deleted == OsDelete(os, "template", name)
        restored == OsStore(deleted, "template", old_t.name, template_row(old_t))
        back == <<Call("template_delete", TRUE), Call("templates_create", FALSE),
                  Call("templates_create", TRUE)>>
    IN  IF ~poolValid
        THEN [os |-> os, exc |-> "InvalidParameter", val |-> "", log |-> <<>>]
        ELSE IF new_t.name \in SeqRange(OsGetList(deleted, "template"))
        THEN [os |-> restored, exc |-> "InvalidOperation", val |-> "", log |-> back]
        ELSE IF ~newOk
        THEN [os |-> restored, exc |-> "InvalidParameter", val |-> "", log |-> back]
        ELSE [os |-> OsStore(deleted, "template", new_t.name, template_row(new_t)),
              exc |-> "none", val |-> new_t.name,
              log |-> <<Call("template_delete", TRUE), Call("templates_create", TRUE)>>]

\* template_update(name, params)
TemplateUpdate(name, params, poolValid, newOk) ==
    LET arg == [name |-> name, params |-> params, poolValid |-> poolValid,
                newOk |-> newOk]
    IN  /\ ret.n < MaxTemplateOps
        /\ UNCHANGED <<connVars, reportVars, hostVars, guestVars, taskVars, vmVars, poolVars, networks>>
        /\ IF ~OsHas(objstore, "template", name)
           THEN /\ ret' = Ret("template_update", arg, "NotFoundError", "", <<>>)
                /\ UNCHANGED objstore
           ELSE LET out == template_update(objstore, name, params, poolValid, newOk)
                IN  /\ objstore' = out.os
                    /\ ret' = Ret("template_update", arg, out.exc, out.val, out.log)

\* The params of a template_update: nothing, another name (free, taken or its
\* own), other disks, or both.
TemplateUpdates ==
    { <<>>, [name |-> "t2"], [name |-> "stream"], [name |-> "tmpl"], [disks |-> 1],
      [name |-> "t2", disks |-> 1], [name |-> "stream", icon |-> ""] }

NextTemplate ==
    \/ \E name \in TemplateNames, params \in TemplateUpdates, poolValid, newOk \in BOOLEAN :
            TemplateUpdate(name, params, poolValid, newOk)
    \/ \E name \in TemplateParamNames, info \in TemplateInfos :
            ret.n < MaxTemplateOps /\ TemplatesCreate(name, info, TRUE)
    \/ \E name \in TemplateNames : ret.n < MaxTemplateOps /\ TemplateDelete(name)

\* params.get('subnet', ''): absent, malformed, or an address in one of the forms.
SubnetForms == {"", "not-a-subnet"} \cup {FormatNet(f) : f \in AddressForms}

\* networks_create of nat and isolated networks over all the forms of a subnet.
NextSubnet ==
    \/ \E name \in NetNames, c \in {"nat", "isolated"}, sn \in SubnetForms :
            NetworksCreate(name, c, sn, "")
    \/ \E name \in NetNames : NetworkDelete(name)

NextNet ==
    \/ \E name \in NetNames, c \in Connections, sn \in SubnetInputs, i \in IfaceInputs :
            NetworksCreate(name, c, sn, i)
    \/ \E name \in NetNames : NetworkActivate(name)
    \/ \E name \in NetNames : NetworkDeactivate(name)
    \/ \E name \in NetNames : NetworkDelete(name)
    \/ \E name \in TemplateParamNames, info \in TemplateInfos, ok \in BOOLEAN :
            TemplatesCreate(name, info, ok)
    \/ \E name \in TemplateParamNames : TemplateDelete(name)

----------------------------------------------------------------------------
(***************************************************************************)
(* Debug reports: Model.debugreports_create, Model._gen_debugreport_file,  *)
(* Model._get_system_report_tool and Model._sosreport_generate.            *)
(*                                                                         *)
(* A file is (dir, stem, ext): stem and ext are the '-' separated and the  *)
(* '.' separated parts of its name, so /tmp/sosreport-a-x.tar.xz is        *)
(* ("/tmp", <<"sosreport", "a", "x">>, <<"tar", "xz">>).  A report name is *)
(* the sequence of its '-' separated parts.                                *)
(***************************************************************************)

MaxReportOps == 4

ReportNames == {<<"a">>, <<"a", "b">>}

\* The commands of self.report_tools, in the order of the tuple.
ReportCmds == <<"sosreport", "supportconfig", "linuxexplorers">>

\* self.report_tools: the 'fn' of each command.
ReportFn(cmd) == IF cmd = "sosreport" THEN "_sosreport_generate" ELSE "None"

\* _get_system_report_tool, without the test of the retcode: the 'fn' of the
\* first tool of the tuple, found by the shell or not.
get_system_report_tool_untested(found) == ReportFn(ReportCmds[1])

\* _get_system_report_tool: the 'fn' of the first command the shell finds
\* (retcode 0), None when it finds none.
get_system_report_tool(found) ==
    LET hits == {i \in DOMAIN ReportCmds : ReportCmds[i] \in found}
    IN  IF hits = {} THEN "None"
        ELSE ReportFn(ReportCmds[CHOOSE i \in hits : \A j \in hits : i <= j])

File(dir, stem, ext) == [dir |-> dir, stem |-> stem, ext |-> ext]

\* glob.glob('/tmp/sosreport-%s-*' % name): the files of /tmp whose name starts
\* with sosreport-<name>-
glob_sosreport(fs, name) ==
    {f \in fs : /\ f.dir = "/tmp"
                /\ Len(f.stem) >= Len(name) + 2
                /\ SubSeq(f.stem, 1, Len(name) + 1) = <<"sosreport">> \o name}

\* fnmatch.fnmatch(reportFile, '*.md5')
is_md5(f) == f.ext # <<>> /\ f.ext[Len(f.ext)] = "md5"

\* '%s.md5' % output
md5_of(f) == File(f.dir, f.stem, Append(f.ext, "md5"))

\* target_file = '%s.%s' % (os.path.join(path, name), ext), with
\* ext = output.split('.', 1)[1]
target_file(name, output) == File("debugreports", name, output.ext)

\* The files glob.glob may put first among those that are not *.md5: the order
\* of its result is the directory's.
report_outputs(fs, name) == {f \in glob_sosreport(fs, name) : ~is_md5(f)}

\* _sosreport_generate, from the command's exit on: fs is the file system after
\* the command ran, output the file the loop stopped at.  The result is the
\* file system left, the exception leaving the function and the calls made.
sosreport_generate(fs, name, retcode, output) ==
    IF retcode < 0 THEN [files |-> fs, exc |-> "OperationFailed", log |-> <<>>]
    ELSE IF retcode > 0 THEN [files |-> fs, exc |-> "OperationFailed", log |-> <<>>]
    ELSE IF report_outputs(fs, name) = {}
         THEN [files |-> fs, exc |-> "OperationFailed", log |-> <<>>]
    ELSE IF output.ext = <<>>
         \* output.split('.', 1)[1] raises IndexError, caught by except Exception
         THEN [files |-> fs, exc |-> "OperationFailed", log |-> <<>>]
    ELSE LET moved == (fs \ {output}) \cup {target_file(name, output)}
         IN  IF md5_of(output) \notin moved
             \* os.remove raises OSError, which is raised again
             THEN [files |-> moved, exc |-> "OSError",
                   log |-> <<Call("shutil.move", TRUE), Call("os.remove", FALSE)>>]
             ELSE [files |-> moved \ {md5_of(output)}, exc |-> "none",
                   log |-> <<Call("shutil.move", TRUE), Call("os.remove", TRUE),
                             Call("cb", TRUE)>>]

\* debugreports_create(params): _gen_debugreport_file(name), which is add_task
\* when a report function was found and OperationFailed otherwise, then
\* task_lookup(taskid).
DebugreportsCreate(name, found) ==
    LET gen_cmd == get_system_report_tool(found)
        task == NewTask(next_taskid, "")
        arg == [name |-> name, found |-> found]
    IN  /\ ret.n < MaxReportOps
        /\ \A t \in Threads : rq[t].pc = "idle"
        /\ IF gen_cmd # "None"
           THEN /\ Len(tasks) < MaxTasks
                /\ next_taskid' = next_taskid + 1
                /\ tasks' = Append(tasks, task)
                /\ objstore' = SaveTask(objstore, task)
                /\ jobs' = (next_taskid :> name) @@ jobs
                /\ ret' = Ret("debugreports_create", arg, "none",
                              [id |-> next_taskid,
                               status |-> TaskStatusOf(objstore', next_taskid)], <<>>)
           ELSE /\ ret' = Ret("debugreports_create", arg, "OperationFailed", "", <<>>)
                /\ UNCHANGED <<next_taskid, tasks, objstore, jobs>>
        /\ UNCHANGED <<connVars, hostVars, rq, vmVars, poolVars, networks, guestVars, files>>

\* What a run of the sosreport command may leave in /tmp for a report name.
Artifact(name, ext) == File("/tmp", <<"sosreport">> \o name \o <<"x">>, ext)

Produced(name) ==
    { {},
      {Artifact(name, <<"tar", "xz">>), Artifact(name, <<"tar", "xz", "md5">>)},
      {Artifact(name, <<"tar", "xz">>)},
      {Artifact(name, <<"tar", "xz", "md5">>)},
      {Artifact(name, <<>>)} }

RetCodes == {0 - 1, 0, 1}

\* The thread of task k runs fn(cb, opaque) with fn = _sosreport_generate: the
\* command exits with retcode having written the files produced.  cb('OK', True)
\* finishes the task; an exception leaving the function fails it.
SosreportGenerate(k, retcode, produced) ==
    /\ ret.n < MaxReportOps
    /\ k \in DOMAIN tasks
    /\ tasks[k].id \in DOMAIN jobs
    /\ tasks[k].status = "running"
    /\ LET name == jobs[tasks[k].id]
           fs == files \cup produced
           found == report_outputs(fs, name)
       IN  /\ produced \in Produced(name)
           /\ \E output \in (IF found = {} THEN {Artifact(name, <<>>)} ELSE found) :
                 LET out == sosreport_generate(fs, name, retcode, output)
                     ok == out.exc = "none"
                 IN  /\ files' = out.files
                     /\ tasks' = [tasks EXCEPT
                                    ![k].status = IF ok THEN "finished" ELSE "failed",
                                    ![k].message = IF ok THEN "OK" ELSE out.exc]
                     /\ objstore' = SaveTask(objstore, tasks'[k])
                     /\ ret' = Ret("_sosreport_generate",
                                   [name |-> name, id |-> tasks[k].id, retcode |-> retcode,
                                    produced |-> produced, output |-> output],
                                   out.exc, "", out.log)
    /\ UNCHANGED <<connVars, hostVars, next_taskid, rq, jobs, vmVars, poolVars, networks, guestVars>>

NextReport ==
    \/ \E name \in ReportNames, found \in SUBSET SeqRange(ReportCmds) :
          DebugreportsCreate(name, found)
    \/ \E k \in 1..MaxTasks, retcode \in RetCodes,
          produced \in UNION {Produced(name) : name \in ReportNames} :
          SosreportGenerate(k, retcode, produced)

----------------------------------------------------------------------------
(***************************************************************************)
(* Specifications                                                          *)
(***************************************************************************)

InitConn == ConnStart /\ TaskStart /\ objstore = <<>> /\ PlaneStart
SpecConn == InitConn /\ [][NextConn]_vars

\* The steps of a thread inside get() or inside the wrapper are taken: an open
\* attempt and its pause end, and a thread waiting for the lock gets it when it
\* is free again and again (threading.Lock wakes a waiter on release).
ConnFairness ==
    \A t \in Threads :
        /\ WF_vars(\E ok \in BOOLEAN : OpenAttempt(t, ok))
        /\ WF_vars(Sleep(t))
        /\ SF_vars(GetEnter(t))
        /\ SF_vars(Invalidate(t))
SpecConnFair == InitConn /\ [][NextConn]_vars /\ ConnFairness

InitTask == ConnStart /\ TaskStart /\ objstore = <<>> /\ PlaneStart
SpecTask == InitTask /\ [][NextTask]_vars

\* vms_create on a host that already has domains, a volume of another domain and
\* templates; the feature test for ISO streaming has had either outcome.
InitVm ==
    /\ ConnStart
    /\ TaskStart
    /\ ReportStart
    /\ HostStart
    /\ objstore = TemplateRows
    /\ vms \in VmPopulations
    /\ volumes = {<<0, 1>>}
    /\ next_uuid = 1
    /\ qemu_stream \in BOOLEAN
    /\ pools = <<>>
    /\ mountDirs = {}
    /\ scanDirs = {}
    /\ networks = <<>>
    /\ GuestStart
    /\ ret = NoRet
SpecVm == InitVm /\ [][NextVm]_vars

InitLife ==
    /\ ConnStart
    /\ TaskStart
    /\ ReportStart
    /\ HostStart
    /\ \E withShot \in BOOLEAN : objstore = LifeRows(withShot)
    /\ vms = Population({1, 2})
    /\ volumes = {<<0 - 1, 1>>, <<0 - 2, 1>>}
    /\ next_uuid = 1
    /\ qemu_stream = FALSE
    /\ pools = <<>>
    /\ mountDirs = {}
    /\ scanDirs = {}
    /\ networks = <<>>
    /\ running \in SUBSET {0 - 1, 0 - 2}
    /\ boots = [u \in running |-> 1]
    /\ stats = <<>>
    /\ now = 0
    /\ lastSample = <<>>
    /\ host_stats = <<>>
    /\ ret = NoRet
SpecLife == InitLife /\ [][NextLife]_vars

SpecRename == InitLife /\ [][NextRename]_vars

SpecPower == InitLife /\ [][NextPower]_vars

\* As InitLife, and vm_connect may have succeeded before for domains that run.
InitConsole ==
    /\ ConnStart
    /\ TaskStart
    /\ ReportStart
    /\ paused = {}
    /\ power = NoPower
    /\ objstore = LifeRows(FALSE)
    /\ vms = Population({1, 2})
    /\ volumes = {<<0 - 1, 1>>, <<0 - 2, 1>>}
    /\ next_uuid = 1
    /\ qemu_stream = FALSE
    /\ pools = <<>>
    /\ mountDirs = {}
    /\ scanDirs = {}
    /\ networks = <<>>
    /\ running \in SUBSET {0 - 1, 0 - 2}
    /\ boots = [u \in running |-> 1]
    /\ stats = <<>>
    /\ now = 0
    /\ lastSample = <<>>
    /\ host_stats = <<>>
    /\ \E C \in SUBSET {v \in vms : v.uuid \in running} :
          graphics_ports = [n \in {v.name : v \in C} |->
                               new_ws_proxy(CHOOSE v \in C : v.name = n)]
    /\ ret = NoRet
SpecConsole == InitConsole /\ [][NextConsole]_vars

\* Two templates are stored when the requests start.
InitTemplate ==
    /\ ConnStart
    /\ TaskStart
    /\ PlaneStart
    /\ objstore = TemplateRows
SpecTemplate == InitTemplate /\ [][NextTemplate]_vars

\* The readings of the samples already in the windows when the model starts.
FirstReading ==
    CHOOSE r \in Readings : r.cputime = 100

\* Two domains; either may be running, and the per-guest tick may already have
\* run once, at StartTime.
GuestsReady ==
    /\ ConnStart
    /\ TaskStart
    /\ ReportStart
    /\ HostStart
    /\ objstore = <<>>
    /\ vms = Population({1, 2})
    /\ volumes = {<<0 - 1, 1>>, <<0 - 2, 1>>}
    /\ next_uuid = 1
    /\ qemu_stream = FALSE
    /\ pools = <<>>
    /\ mountDirs = {}
    /\ scanDirs = {}
    /\ networks = <<>>
    /\ running \in SUBSET {0 - 1, 0 - 2}
    /\ boots = [u \in running |-> 1]
    /\ now = StartTime
    /\ \E ticked \in BOOLEAN :
          IF ticked
          THEN /\ stats = [u \in {0 - 1, 0 - 2} |->
                            IF u \in running
                            THEN sample_running(<<>>, u, StartTime, FirstReading)
                            ELSE EmptyDict]
               /\ lastSample = [u \in running |->
                                 [t |-> StartTime, boot |-> 1,
                                  cputime |-> FirstReading.cputime,
                                  cpus |-> FirstReading.cpus,
                                  rx |-> SumOver(FirstReading.ifaces, "rx"),
                                  tx |-> SumOver(FirstReading.ifaces, "tx"),
                                  rd |-> SumOver(FirstReading.disks, "rd"),
                                  wr |-> SumOver(FirstReading.disks, "wr")]]
          ELSE stats = <<>> /\ lastSample = <<>>
    /\ ret = NoRet

InitGuests ==
    /\ GuestsReady
    /\ host_stats = <<>>
SpecGuests == InitGuests /\ [][NextGuests]_vars

\* The per-guest tick with lookups and deletions of the domains in between.
NextDeleted ==
    \/ \E dt \in TickSteps, info \in [{v.uuid : v \in vms} \cap running -> SamplerReadings] :
            UpdateGuestsStats(dt, info, NoFault)
    \/ \E name \in GuestNames : VmLookup(name)
    \/ \E name \in GuestNames : VmDelete(name)
SpecDeleted == InitGuests /\ [][NextDeleted]_vars

\* The samplers: the host tick may already have run once, at StartTime.
InitSampler ==
    /\ GuestsReady
    /\ host_stats \in {<<>>, update_host_stats(<<>>, StartTime,
                            CHOOSE r \in HostReadings : r.cpu = 10, Uptime).host_stats}
SpecSampler == InitSampler /\ [][NextSampler]_vars

InitPool ==
    /\ ConnStart
    /\ TaskStart
    /\ ReportStart
    /\ HostStart
    /\ objstore = <<>>
    /\ GuestStart
    /\ vms = {}
    /\ volumes = {}
    /\ next_uuid = 1
    /\ qemu_stream = FALSE
    /\ pools \in PoolPopulations
    /\ mountDirs = {}
    /\ scanDirs = {}
    /\ networks = <<>>
    /\ ret = NoRet
SpecPool == InitPool /\ [][NextPool]_vars

\* The host may come with a network that libvirt has defined and started.
NetworkPopulations ==
    {<<>>, <<Network("n1", "nat", "192.168.100.0/24", "", TRUE, TRUE)>>}

InitNet ==
    /\ ConnStart
    /\ TaskStart
    /\ ReportStart
    /\ HostStart
    /\ objstore = <<>>
    /\ GuestStart
    /\ vms = {}
    /\ volumes = {}
    /\ next_uuid = 1
    /\ qemu_stream = FALSE
    /\ pools = <<>>
    /\ mountDirs = {}
    /\ scanDirs = {}
    /\ networks \in NetworkPopulations
    /\ ret = NoRet
SpecNet == InitNet /\ [][NextNet]_vars

SpecSubnet == InitNet /\ [][NextSubnet]_vars

InitReport == ConnStart /\ TaskStart /\ objstore = <<>> /\ PlaneStart
SpecReport == InitReport /\ [][NextReport]_vars

----------------------------------------------------------------------------
(***************************************************************************)
(* Claims about LibvirtConnection, checked under SpecConn.                 *)
(***************************************************************************)

\* Connection-class as the specification words it: a control-plane error whose
\* domain is remote or rpc and whose code is system-error, internal-error,
\* no-connection or invalid-connection.
ConnectionClass(e) ==
    /\ e.kind = "libvirtError"
    /\ e.dom \in {"remote", "rpc"}
    /\ e.code \in {"system_error", "internal_error", "no_connect", "invalid_conn"}

InGet(t) == th[t].pc \in {"get_lock", "open", "sleep"}

\* C1 (reconnection): a connection-class error of a wrapped call never reaches the
\* caller straight from the call: the wrapper first clears the slot the session
\* came from; the error delivered is the one raised, and at the moment it is
\* delivered the slot is disconnected. A get() that finds the slot disconnected
\* never returns without opening, and when it returns it returns a session that
\* did not exist before, with the open count increased by exactly one.
C1_Reconnection ==
    [][\A t \in Threads :
        LET c == th[t].conn_id IN
        /\ (th[t].pc = "hold" /\ th'[t].pc \in {"unwind", "raised"}
                /\ ConnectionClass(th'[t].err))
            => /\ th'[t].pc = "unwind"
               /\ \E i \in DOMAIN th'[t].pending : th'[t].pending[i] = c
        /\ th[t].pc = "unwind"
            => /\ th'[t].err = th[t].err
               /\ th'[t].pc \in {"unwind", "raised"}
               /\ th'[t].pc = "raised" => connections'[c] = None
        /\ (th[t].pc = "get_lock" /\ th'[t].pc # "get_lock" /\ connections[c] = None)
            => th'[t].pc = "open"
        /\ (th[t].pc = "open" /\ th'[t].pc = "hold")
            => /\ openCount' = openCount + 1
               /\ th'[t].conn = openCount'
               /\ connections'[c] = th'[t].conn
               /\ \A u \in Threads : th[u].conn # th'[t].conn
               /\ \A d \in ConnIds : connections[d] # th'[t].conn
      ]_vars

\* C1 witness: after a connection-class failure a get() has re-opened: the slot
\* holds the second session and a caller has it.
C1_Witness ==
    \E t \in Threads : th[t].pc = "hold" /\ th[t].conn = 2 /\ connections[th[t].conn_id] = 2

\* C2 (frame): a failure that is not connection-class reaches the caller at once
\* and unchanged, with the memoized session and the open count untouched; a get()
\* on an established slot returns the memoized session without opening; and an
\* established session leaves its slot only through the wrapper handling a
\* connection-class failure.
C2_OtherFailuresLeaveSession ==
    [][/\ \A t \in Threads :
            LET c == th[t].conn_id IN
            /\ (th[t].pc = "hold" /\ th'[t].pc \in {"unwind", "raised"}
                    /\ ~ConnectionClass(th'[t].err))
                => /\ th'[t].pc = "raised"
                   /\ connections' = connections
                   /\ openCount' = openCount
            /\ (th[t].pc = "get_lock" /\ th'[t].pc # "get_lock" /\ connections[c] # None)
                => /\ th'[t].pc = "hold"
                   /\ th'[t].conn = connections[c]
                   /\ connections' = connections
                   /\ openCount' = openCount
       /\ \A c \in ConnIds :
            (connections[c] # None /\ connections'[c] # connections[c])
                => /\ connections'[c] = None
                   /\ \E t \in Threads : /\ th[t].pc = "unwind"
                                         /\ ConnectionClass(th[t].err)
                                         /\ th'[t] # th[t]
      ]_vars

\* C2 witness: a caller has received an error of the remote domain whose code is
\* not connection-class, and the slot still holds the first session ever opened.
C2_Witness ==
    \E t \in Threads :
        /\ th[t].pc = "raised"
        /\ th[t].err = [kind |-> "libvirtError", dom |-> "remote", code |-> "no_domain"]
        /\ connections[th[t].conn_id] = 1
        /\ openCount = 1

\* C3 (mutual exclusion): at most one thread is inside a connection attempt and it
\* holds the lock, every other thread inside get() is waiting for the lock; a
\* session is stored only into a disconnected slot (one open per disconnection);
\* and a get() that returns hands out the session memoized in the slot.
C3_SingleConnectionAttempt ==
    /\ [](/\ Cardinality({t \in Threads : th[t].pc \in {"open", "sleep"}}) <= 1
          /\ \A t \in Threads :
                /\ th[t].pc \in {"open", "sleep"} => connectionLock = t
                /\ (InGet(t) /\ connectionLock # t) => th[t].pc = "get_lock"
          /\ connectionLock # NoThread => th[connectionLock].pc \in {"open", "sleep"})
    /\ [][/\ \A c \in ConnIds :
                (connections'[c] # None /\ connections'[c] # connections[c])
                    => connections[c] = None
          /\ \A t \in Threads :
                (InGet(t) /\ th'[t].pc = "hold")
                    => /\ th'[t].conn # None
                       /\ th'[t].conn = connections'[th[t].conn_id]
         ]_vars

\* C3 witness: one thread pauses between two open attempts while the other waits
\* at the lock.
C3_Witness ==
    \E t, u \in Threads : t # u /\ th[t].pc = "sleep" /\ th[u].pc = "get_lock"

\* C4 (retry budget): a get() makes at most 5 open attempts, pausing 2 seconds
\* after every failed attempt but the last; a successful attempt returns its
\* session at once; the get() fails, and stops the engine, only at the fifth
\* failed attempt, and the engine is stopped in no other way.
C4_RetryBudget ==
    /\ [](\A t \in Threads : th[t].pc \in {"open", "sleep"} => th[t].slept \in {0, 2, 4, 6, 8})
    /\ [][/\ \A t \in Threads :
                /\ (th[t].pc = "open" /\ th'[t].pc = "raised")
                    => /\ th[t].slept = 8
                       /\ engineStopped'
                       /\ th'[t].err.kind = "libvirtError"
                /\ (th[t].pc = "open" /\ th'[t].pc = "sleep")
                    => /\ th[t].slept < 8
                       /\ th'[t].slept = th[t].slept
                /\ (th[t].pc = "sleep" /\ th'[t] # th[t])
                    => /\ th'[t].pc = "open"
                       /\ th'[t].slept = th[t].slept + 2
                /\ (th[t].pc = "open" /\ th'[t] # th[t])
                    => th'[t].pc \in {"hold", "sleep", "raised"}
                /\ (th[t].pc = "open" /\ th'[t].pc = "hold")
                    => th'[t].conn = connections'[th[t].conn_id] /\ th'[t].conn # None
          /\ engineStopped' # engineStopped
                => \E t \in Threads : th[t].pc = "open" /\ th'[t].pc = "raised"
         ]_vars

\* C4 witness: a get() has failed after exhausting its budget and the engine is
\* stopped.
C4_Witness ==
    \E t \in Threads :
        th[t].pc = "raised" /\ th[t].err = OpenErr /\ engineStopped /\ connections[0] = None

----------------------------------------------------------------------------
(***************************************************************************)
(* Claims about the task registry, checked under SpecTask.                 *)
(***************************************************************************)

\* The ids add_task has drawn and not yet returned to its caller's caller.
DrawnIds(t) == IF rq[t].pc \in {"incr_load", "incr_store", "spawn", "returned"}
               THEN {rq[t].id} ELSE {}

\* C5 (unique task ids): no two tasks ever share an id, no two add_task calls in
\* progress hold the same id, no call holds the id of a task of another call, and
\* the ids start at 1.
C5_UniqueTaskIds ==
    /\ \A i, j \in DOMAIN tasks : i # j => tasks[i].id # tasks[j].id
    /\ \A t, u \in Threads : t # u => DrawnIds(t) \cap DrawnIds(u) = {}
    /\ \A k \in DOMAIN tasks : tasks[k].id >= 1

\* C6 (task lifecycle): from the moment add_task returns, task_lookup(id) finds the
\* task; a status goes from running to finished or failed and from there nowhere;
\* a task that is looked up as running has a unit of work still running; and no
\* id is used for two tasks.
C6_TaskLifecycle ==
    /\ [](\A t \in Threads :
            rq[t].pc = "returned" => TaskStatusOf(objstore, rq[t].id) # "NotFoundError")
    /\ [](\A i, j \in DOMAIN tasks : i # j => tasks[i].id # tasks[j].id)
    /\ [][\A id \in 1..(MaxTasks + 1) :
            LET a == TaskStatusOf(objstore, id)
                b == TaskStatusOf(objstore', id)
            IN  /\ a \in {"finished", "failed"} => b = a
                /\ a = "running" => b \in {"running", "finished", "failed"}
                /\ a = "NotFoundError" => b \in {"NotFoundError", "running"}
         ]_vars

----------------------------------------------------------------------------
(***************************************************************************)
(* Claims about vms_create, checked under SpecVm.                          *)
(***************************************************************************)

\* The step is a call of `op`.
Did(op) == ret'.n = ret.n + 1 /\ ret'.op = op

CountCalls(log, c) == Cardinality({i \in DOMAIN log : log[i] = c})

\* C7 (rollback atomicity): whenever vms_create's defineXML fails after N volumes
\* were forked, N volumes are deleted and they are the forked ones (the volumes
\* are what they were before the call), no domain was added, and the operation
\* fails with OperationFailed.
C7_RollbackAtomicity ==
    [][(Did("vms_create") /\ \E i \in DOMAIN ret'.log : ret'.log[i] = Call("defineXML", FALSE))
        => /\ CountCalls(ret'.log, Call("delete", TRUE))
                = CountCalls(ret'.log, Call("createXML", TRUE))
           /\ volumes' = volumes
           /\ vms' = vms
           /\ ret'.exc = "OperationFailed"
      ]_vars

\* C10 (VM name generation): a vms_create without a name for template T never
\* defines a domain under another name than "T-vm-i" for the least i in 1..999
\* whose name no existing domain has, and returns that name when it succeeds;
\* existing {"tmpl-vm-1", "tmpl-vm-2"} yields "tmpl-vm-3"; when all 999 names are
\* taken it fails with OperationFailed and domains, volumes and object store are
\* what they were.
C10_VmNameGeneration ==
    [][(Did("vms_create") /\ ret'.arg.name = "")
        => LET t == ret'.arg.template
               existing == {v.name : v \in vms}
               Free == {i \in 1..999 : (t \o "-vm-" \o ToString(i)) \notin existing}
           IN  /\ Free = {}
                    => /\ ret'.exc = "OperationFailed"
                       /\ vms' = vms /\ volumes' = volumes /\ objstore' = objstore
               /\ Free # {}
                    => LET least == CHOOSE i \in Free : \A j \in Free : i <= j
                           chosen == t \o "-vm-" \o ToString(least)
                       IN  /\ chosen \notin existing
                           /\ \A v \in vms' \ vms : v.name = chosen
                           /\ ret'.exc = "none"
                                => ret'.val = chosen /\ \E v \in vms' \ vms : v.name = chosen
               /\ (existing = {"tmpl-vm-1", "tmpl-vm-2"} /\ t = "tmpl" /\ ret'.exc = "none")
                    => ret'.val = "tmpl-vm-3"
      ]_vars

\* C10 witness: every one of the 999 names is taken and an unnamed vms_create has
\* failed with OperationFailed before calling the control plane.
C10_Witness ==
    /\ ret.op = "vms_create" /\ ret.arg.name = "" /\ ret.arg.template = "tmpl"
    /\ ret.exc = "OperationFailed" /\ ret.log = <<>>
    /\ \A i \in {1, 500, 999} : ("tmpl-vm-" \o ToString(i)) \in {v.name : v \in vms}
    /\ Cardinality(vms) = 999

----------------------------------------------------------------------------
(***************************************************************************)
(* Name uniqueness of pools, networks and templates                        *)
(***************************************************************************)

\* C8: storagepools_create under a name an existing pool uses, or under the
\* reserved ISO-pool name, fails with InvalidOperation and changes nothing, for
\* every pool type: no pool appears, no task id is consumed and no task
\* submitted, no 'scanning' record is written, no scan or mount directory made.
C8_DuplicatePoolLeavesStateUnchanged ==
    [][(/\ Did("storagepools_create")
        /\ \/ ret'.arg.name = ISO_POOL_NAME
           \/ ret'.arg.name \in storagepools_get_list)
       => /\ ret'.exc = "InvalidOperation"
          /\ pools' = pools
          /\ next_taskid' = next_taskid
          /\ tasks' = tasks
          /\ objstore' = objstore
          /\ mountDirs' = mountDirs
          /\ scanDirs' = scanDirs]_vars

NoDuplicates(q) == \A i, j \in DOMAIN q : q[i] = q[j] => i = j

templates_get_list == OsGetList(objstore, "template")

\* C9: a networks_create or templates_create under a name that a successful
\* create has put in the list fails with InvalidOperation and leaves the
\* networks resp. the object store exactly as they were; networks_get_list and
\* templates_get_list never name anything twice.
C9_DuplicateNameRejected ==
    /\ [][/\ (Did("networks_create") /\ HasNetwork(ret'.arg.name))
             => (ret'.exc = "InvalidOperation" /\ networks' = networks /\ objstore' = objstore)
          /\ (Did("templates_create") /\ OsHas(objstore, "template", ret'.arg.name))
             => (ret'.exc = "InvalidOperation" /\ objstore' = objstore /\ networks' = networks)
         ]_vars
    /\ [](NoDuplicates(networks_get_list) /\ NoDuplicates(templates_get_list))

\* A second networks_create under the name of a defined network was refused
\* while a template is stored too.
C9_Witness ==
    /\ ret.op = "networks_create"
    /\ ret.exc = "InvalidOperation"
    /\ HasNetwork(ret.arg.name)
    /\ templates_get_list # <<>>

----------------------------------------------------------------------------
(***************************************************************************)
(* Validation in vms_create, checked under SpecVm.                         *)
(***************************************************************************)

ExistingVmNames == {v.name : v \in vms}

\* The request asks for a stored ISO-stream template while self.qemu_stream is off.
StreamRefused(arg) ==
    /\ OsHas(objstore, "template", arg.template)
    /\ OsGet(objstore, "template", arg.template).iso_stream
    /\ ~qemu_stream

\* vms_create raised before calling the control plane and changed nothing.
VmsCreateTouchedNothing ==
    /\ ret'.log = <<>>
    /\ vms' = vms
    /\ volumes' = volumes
    /\ objstore' = objstore

\* C11 as stated: a vms_create whose explicit name is the name of an existing VM,
\* and a vms_create for an ISO-stream template while the control plane lacks
\* stream support, each fail with InvalidOperation with VMs, volumes and object
\* store unchanged.
C11_ValidationFirst_AsStated ==
    [][(Did("vms_create")
        /\ \/ (ret'.arg.name # "" /\ ret'.arg.name \in ExistingVmNames)
           \/ StreamRefused(ret'.arg))
       => (ret'.exc = "InvalidOperation" /\ VmsCreateTouchedNothing)]_vars

\* C11 (amended): as above, except that an unnamed request for an ISO-stream
\* template for which all 999 generated names are taken fails with
\* OperationFailed (the name is generated before the template is read); in that
\* case too nothing is forked, stored or defined.
C11_ValidationFirst ==
    [][(Did("vms_create")
        /\ \/ (ret'.arg.name # "" /\ ret'.arg.name \in ExistingVmNames)
           \/ StreamRefused(ret'.arg))
       => LET t == ret'.arg.template
              exhausted == /\ ret'.arg.name = ""
                           /\ \A i \in 1..999 : (t \o "-vm-" \o ToString(i)) \in ExistingVmNames
          IN  /\ ret'.exc = IF exhausted THEN "OperationFailed" ELSE "InvalidOperation"
              /\ VmsCreateTouchedNothing]_vars

\* C11 witness: a request for the ISO-stream template was refused without any
\* call on the control plane while stream support is missing.
C11_Witness ==
    /\ ret.op = "vms_create"
    /\ ret.arg.template = "stream"
    /\ ret.exc = "InvalidOperation"
    /\ ret.log = <<>>
    /\ ~qemu_stream
    /\ ret.arg.name \notin ExistingVmNames

----------------------------------------------------------------------------
(***************************************************************************)
(* State-gated deletion of networks (SpecNet) and storage pools (SpecPool) *)
(***************************************************************************)

NetworkIsActive(name) == \E i \in DOMAIN networks : networks[i].name = name /\ networks[i].active

Undefined(log) == \E i \in DOMAIN log : log[i] = Call("undefine", TRUE)

\* C12: network_delete on an active network fails with InvalidOperation and the
\* networks are what they were (the network stays defined and active); on an
\* inactive network, as after network_deactivate, it calls undefine, returns
\* normally when libvirt carries the undefine out, and the name is then gone from
\* networks_get_list; no network_delete removes a network that was active when
\* it was called.
C12_NetworkDeleteGated ==
    [][Did("network_delete")
       => LET name == ret'.arg.name IN
          /\ NetworkIsActive(name)
                => (ret'.exc = "InvalidOperation" /\ ret'.log = <<>> /\ networks' = networks)
          /\ (HasNetwork(name) /\ ~NetworkIsActive(name))
                => /\ ret'.exc # "InvalidOperation"
                   /\ ret'.log # <<>>
                   /\ Undefined(ret'.log)
                        => (ret'.exc = "none" /\ name \notin SeqRange(networks_get_list)')
          /\ (HasNetwork(name) /\ name \notin SeqRange(networks_get_list)')
                => ~NetworkIsActive(name)]_vars

\* C12 witness: the network_delete of an active network was refused, and the
\* network is still defined and active.
C12_Witness ==
    /\ ret.op = "network_delete"
    /\ ret.exc = "InvalidOperation"
    /\ NetworkIsActive(ret.arg.name)

PoolIsActive(name) == \E i \in DOMAIN pools : pools[i].name = name /\ pools[i].active
PoolIsPersistent(name) == \E i \in DOMAIN pools : pools[i].name = name /\ pools[i].persistent

\* The step is a storagepool_delete that directly follows a storagepool_deactivate
\* of the same pool which returned normally.
DeleteAfterDeactivate ==
    /\ Did("storagepool_delete")
    /\ ret.op = "storagepool_deactivate"
    /\ ret.exc = "none"
    /\ ret.arg.name = ret'.arg.name

\* What storagepool_delete does according to the pool's state: refused on an
\* active pool, which stays as it is; never a removal of an active pool.
PoolDeleteRefusedWhileActive ==
    Did("storagepool_delete")
       => LET name == ret'.arg.name IN
          /\ PoolIsActive(name)
                => (ret'.exc = "InvalidOperation" /\ ret'.log = <<>> /\ pools' = pools)
          /\ (HasPool(name) /\ name \notin storagepools_get_list')
                => ~PoolIsActive(name)

\* C13 as stated: storagepool_delete on an active pool fails with
\* InvalidOperation and the pool stays defined and active; after a
\* storagepool_deactivate the storagepool_delete calls undefine, returns normally
\* when libvirt carries it out, and the pool is gone from storagepools_get_list;
\* no storagepool_delete removes a pool that was active when it was called.
C13_PoolDeleteGated_AsStated ==
    [][/\ PoolDeleteRefusedWhileActive
       /\ DeleteAfterDeactivate
            => /\ ret'.exc \in {"none", "OperationFailed"}
               /\ Undefined(ret'.log)
                    => (ret'.exc = "none" /\ ret'.arg.name \notin storagepools_get_list')]_vars

\* C13 (amended): as stated for a persistent pool. A transient pool (the pool of
\* a deep scan) ceases to exist when it is deactivated, and the
\* storagepool_delete that follows fails with NotFoundError.
C13_PoolDeleteGated ==
    [][/\ PoolDeleteRefusedWhileActive
       /\ (Did("storagepool_deactivate") /\ ret'.exc = "none")
            => LET name == ret'.arg.name IN
               /\ PoolIsActive(name)
               /\ IF PoolIsPersistent(name)
                  THEN /\ name \in storagepools_get_list'
                       /\ \A i \in DOMAIN pools' : pools'[i].name = name => ~pools'[i].active
                  ELSE name \notin storagepools_get_list'
       /\ DeleteAfterDeactivate
            => IF HasPool(ret'.arg.name)
               THEN /\ ret'.exc \in {"none", "OperationFailed"}
                    /\ ret'.log # <<>>
                    /\ Undefined(ret'.log)
                         => (ret'.exc = "none" /\ ret'.arg.name \notin storagepools_get_list')
               ELSE ret'.exc = "NotFoundError" /\ pools' = pools]_vars

\* C13 witness: a pool was deactivated and then deleted; it is gone.
C13_Witness ==
    /\ ret.op = "storagepool_delete"
    /\ ret.exc = "none"
    /\ ret.arg.name = "p"
    /\ ret.n = 2
    /\ pools = <<>>

----------------------------------------------------------------------------
(***************************************************************************)
(* Deleting and renaming a VM, checked under SpecLife.                     *)
(***************************************************************************)

\* The step is the operation op on a domain that exists when it is called.
DidOnVm(op) == Did(op) /\ \E v \in vms : v.name = ret'.arg.name

TargetVm == CHOOSE v \in vms : v.name = ret'.arg.name

\* C14: after a vm_delete that succeeded on a VM, running or shutoff, with or
\* without icon or screenshot rows, the object store has no 'screenshot' row and
\* no 'vm' row under the VM's UUID.
C14_DeleteClearsSideTables ==
    [][(DidOnVm("vm_delete") /\ ret'.exc = "none")
       => LET u == ToString(TargetVm.uuid) IN
          /\ \A i \in DOMAIN objstore' :
                ~(objstore'[i].kind = "screenshot" /\ objstore'[i].id = u)
          /\ \A i \in DOMAIN objstore' :
                ~(objstore'[i].kind = "vm" /\ objstore'[i].id = u)]_vars

\* The positions in a log at which a call was made.
Positions(log, name) == {i \in DOMAIN log : log[i].call = name}

\* Every call named a comes before every call named b.
Before(log, a, b) == \A i \in Positions(log, a), j \in Positions(log, b) : i < j

\* C15: in vm_delete a running VM is stopped before it is undefined; the disk
\* volumes are read from the descriptor before undefine; the screenshot and the
\* volumes are removed only after undefine; and a vm_delete that succeeds has
\* deleted exactly the volumes of the descriptor as it was before undefine.
C15_DeleteOrdering ==
    [][DidOnVm("vm_delete")
       => LET log == ret'.log
              v == TargetVm
              paths == {<<v.uuid, i>> : i \in 1..v.disks}
          IN  /\ Before(log, "destroy", "undefine")
              /\ (v.uuid \in running /\ Positions(log, "undefine") # {})
                    => Call("destroy", TRUE) \in SeqRange(log)
              /\ Before(log, "XMLDesc", "undefine")
              /\ Positions(log, "undefine") # {} => Positions(log, "XMLDesc") # {}
              /\ Before(log, "undefine", "vol.delete")
              /\ Before(log, "undefine", "screenshot.delete")
              /\ ret'.exc = "none"
                    => /\ volumes \ volumes' = paths
                       /\ CountCalls(log, Call("vol.delete", TRUE)) = v.disks]_vars

\* C16: a vm_update that renames a shutoff VM either succeeds, and then the VM
\* is defined under the new name with its UUID and the old name resolves to
\* nothing; or fails with OperationFailed with the domains as they were. It
\* never ends with the VM undefined.
C16_RenameRestores ==
    [][(DidOnVm("vm_update") /\ ret'.arg.hasName /\ TargetVm.uuid \notin running)
       => LET v == TargetVm
              newName == ret'.arg.newName
          IN  /\ ret'.exc = "none"
                    => /\ \E w \in vms' : w.name = newName /\ w.uuid = v.uuid
                       /\ newName # v.name => ~\E w \in vms' : w.name = v.name
              /\ ret'.exc # "none"
                    => (ret'.exc = "OperationFailed" /\ vms' = vms)
              /\ \E w \in vms' : w.uuid = v.uuid]_vars

\* C17: a vm_update with a 'name' on a running VM fails with InvalidOperation
\* without calling undefine or define; the VM stays defined under its old name
\* and running.
C17_RenameRunningRefused ==
    [][(DidOnVm("vm_update") /\ ret'.arg.hasName /\ TargetVm.uuid \in running)
       => /\ ret'.exc = "InvalidOperation"
          /\ ret'.log = <<>>
          /\ vms' = vms
          /\ running' = running]_vars

----------------------------------------------------------------------------
(***************************************************************************)
(* The per-guest tick, checked under SpecGuests.                           *)
(***************************************************************************)

KnownUuids == {v.uuid : v \in vms}

\* The window of u holds a sample (it was not cleared since the sample was taken).
HasSample(st, u) == u \in DOMAIN st /\ "timestamp" \in DOMAIN st[u]

\* C18: after a per-guest tick every known VM that is not running has an empty
\* sample window, for which vm_lookup reports cpu_utilization 0, throughputs 0
\* and the default peaks; and a sample that a tick uses as its baseline was
\* taken in the VM's current run, never before the VM stopped and ran again.
C18_StoppedWindowsCleared ==
    [][Did("tick")
       => \A u \in KnownUuids :
            /\ u \notin running
                => /\ DOMAIN stats'[u] = {}
                   /\ vm_lookup_reported(stats', u)
                        = [cpu_utilization |-> [n |-> 0, d |-> 1],
                           net_throughput |-> [n |-> 0, d |-> 1],
                           net_throughput_peak |-> 100,
                           io_throughput |-> [n |-> 0, d |-> 1],
                           io_throughput_peak |-> 100]
            /\ (u \in running /\ HasSample(stats, u))
                => /\ u \in DOMAIN lastSample
                   /\ lastSample[u].boot = (IF u \in DOMAIN boots THEN boots[u] ELSE 0)]_vars

\* The rates the tick stored for u are the byte deltas between the previous
\* tick's readings and this tick's, in KB of 1000 (network) and 1024 (disk)
\* bytes, per second elapsed between the two ticks.
RatesAreDeltasOverTime(u) ==
    LET p == lastSample[u]
        c == lastSample'[u]
        w == stats'[u]
        elapsed == c.t - p.t
    IN  /\ elapsed > 0
        /\ w.net_io.n * 1000 * elapsed = w.net_io.d * ((c.rx - p.rx) + (c.tx - p.tx))
        /\ w.disk_io.n * 1024 * elapsed = w.disk_io.d * ((c.rd - p.rd) + (c.wr - p.wr))
        /\ (p.rx = 1000 /\ p.tx = 2000 /\ c.rx = 3000 /\ c.tx = 5000 /\ elapsed = 10)
              => w.net_io = [n |-> 1, d |-> 2]

PriorPeak(u, key) ==
    IF u \in DOMAIN stats /\ key \in DOMAIN stats[u] THEN stats[u][key] ELSE 100

\* C20: in a tick the network and disk peaks of a running VM's window never
\* decrease; a peak changes only if the rate computed in that tick exceeds the
\* prior maximum, and keeps its prior value otherwise.
C20_RunningMaximum ==
    [][Did("tick")
       => \A u \in KnownUuids \cap running :
            LET w == stats'[u]
                netPrior == PriorPeak(u, "max_net_io")
                diskPrior == PriorPeak(u, "max_disk_io")
                netExceeds == netPrior * w.net_io.d < w.net_io.n
                diskExceeds == diskPrior * w.disk_io.d < w.disk_io.n
            IN  /\ w.max_net_io >= netPrior
                /\ w.max_disk_io >= diskPrior
                /\ w.max_net_io # netPrior => netExceeds
                /\ w.max_disk_io # diskPrior => diskExceeds
                /\ ~netExceeds => w.max_net_io = netPrior
                /\ ~diskExceeds => w.max_disk_io = diskPrior]_vars

\* C20 witness: a tick has raised the network peak above the default, and the
\* next tick, with a lower rate, has kept it.
C20_Witness ==
    /\ ret.op = "tick"
    /\ \E u \in running :
          /\ HasSample(stats, u)
          /\ stats[u].max_net_io > 100
          /\ stats[u].net_io.n < 100 * stats[u].net_io.d

----------------------------------------------------------------------------
(***************************************************************************)
(* The samplers under a clock that may stand still or go back, readings    *)
(* without vcpus and stats calls that raise, checked under SpecSampler.    *)
(***************************************************************************)

\* The rates a window or the host map holds under the given keys (absent: 0).
RatesOf(d, keys) == [k \in keys |-> DictGet(d, k, 0)]

GuestRateKeys == {"cpu", "net_io", "disk_io"}
HostRateKeys == {"disk_read_rate", "disk_write_rate", "net_recv_rate", "net_sent_rate"}

\* C21: in a per-guest tick whose timestamp is not later than the timestamp of a
\* running VM's previous sample, and in a host tick whose timestamp is not later
\* than the previous host sample's, the tick does not fail and the rates stored
\* before it are not recomputed from that interval.
C21_NoRateOverNonPositiveInterval ==
    [][/\ Did("tick")
          => LET late == {u \in KnownUuids \cap running :
                            HasSample(stats, u) /\ now' <= stats[u]["timestamp"]}
             IN  /\ late # {} => ret'.exc = "none"
                 /\ \A u \in late :
                      RatesOf(stats'[u], GuestRateKeys) = RatesOf(stats[u], GuestRateKeys)
       /\ (/\ Did("host_tick")
           /\ "timestamp" \in DOMAIN host_stats
           /\ host_stats["timestamp"] # 0
           /\ now' <= host_stats["timestamp"])
          => /\ ret'.exc = "none"
             /\ RatesOf(host_stats', HostRateKeys) = RatesOf(host_stats, HostRateKeys)]_vars

----------------------------------------------------------------------------
(***************************************************************************)
(* The cpu usage of a guest, checked under SpecGuests. The cpu time is     *)
(* counted in units of 10^7 ns: d units in s seconds are d * 10^7 ns, and   *)
(* d * 10^7 * 100 / (s * 10^9) = d / s.                                    *)
(***************************************************************************)

\* The tick sampled u in full, after the previous tick had done so, and the
\* window of u was kept in between.
SampledAgain(u) ==
    /\ u \in running
    /\ u \in DOMAIN lastSample
    /\ u \in DOMAIN lastSample'
    /\ HasSample(stats, u)

\* cpu = clamp(0, 100, delta / (elapsed * cpus * scale)), delta in units of 10^7 ns
CpuIsClamped(cpu, delta, elapsed, cpus, scale) ==
    IF delta <= 0 THEN cpu = [n |-> 0, d |-> 1]
    ELSE IF delta >= 100 * elapsed * cpus * scale THEN cpu = [n |-> 100, d |-> 1]
    ELSE cpu.n * elapsed * cpus * scale = cpu.d * delta

TickRead == DOMAIN ret'.arg.info

\* The tick sampled u in full: timestamp, cpu usage and both rates are of this tick.
SampledNow(u) ==
    /\ u \in DOMAIN lastSample'
    /\ {"timestamp", "cpu", "net_io", "disk_io"} \subseteq DOMAIN stats'[u]
    /\ stats'[u]["timestamp"] = now'

\* C23: when the clock has advanced, no stats call raises and a running VM
\* reports a vcpu-count of zero, the per-guest tick does not fail, stores a cpu
\* usage of 0 for that VM, computes its network and disk rates and samples
\* every other running VM.
C23_ZeroVcpuGuard ==
    [][(/\ Did("tick")
        /\ ret'.arg.dt > 0
        /\ \A u \in DOMAIN ret'.arg.fault : ~ret'.arg.fault[u]
        /\ \E u \in TickRead : ret'.arg.info[u].cpus = 0)
       => /\ ret'.exc = "none"
          /\ \A u \in TickRead :
                /\ SampledNow(u)
                /\ ret'.arg.info[u].cpus = 0 => stats'[u]["cpu"] = [n |-> 0, d |-> 1]]_vars

\* C24: when the clock has advanced, every reading has a vcpu and a stats call
\* on one running VM raises during a per-guest tick, the failure does not leave
\* the tick, every other running VM of the list is sampled in that tick and
\* every VM that is not running has its window cleared.
C24_SamplerFailureIsolation ==
    [][(/\ Did("tick")
        /\ ret'.arg.dt > 0
        /\ \A u \in TickRead : ret'.arg.info[u].cpus > 0
        /\ \E u \in TickRead : ret'.arg.fault[u])
       => /\ ret'.exc = "none"
          /\ \A u \in TickRead : ~ret'.arg.fault[u] => SampledNow(u)
          /\ \A u \in KnownUuids \ running : DOMAIN stats'[u] = {}]_vars

\* C25: the per-VM stats map changes only in a per-guest tick and the host stats
\* map only in a host tick (no foreground operation adds, clears or changes an
\* entry of either), and a tick changes nothing but its map and the clock it reads.
C25_OnlySamplersWrite ==
    [][/\ stats' # stats => Did("tick")
       /\ host_stats' # host_stats => Did("host_tick")
       /\ Did("tick")
            => UNCHANGED <<connVars, reportVars, hostVars, taskVars, objstore, vmVars, poolVars, networks,
                           running, boots, host_stats>>
       /\ Did("host_tick")
            => UNCHANGED <<connVars, reportVars, hostVars, taskVars, objstore, vmVars, poolVars, networks,
                           running, boots, stats>>]_vars

----------------------------------------------------------------------------
(***************************************************************************)
(* The DHCP range of nat and isolated networks, checked under SpecSubnet.  *)
(***************************************************************************)

\* The network a successful networks_create has defined.
CreatedNetwork == networks'[Len(networks')]

\* The dhcp range starts at start and ends at end, as numbers.
DhcpIs(nw, start, end) ==
    nw.dhcp = [start |-> FormatAddress(start), end |-> FormatAddress(end)]

\* C26: a nat or isolated network created by networks_create on subnet S (given
\* in any valid form, or allocated) has a DHCP range with start <= end, whose
\* start is the midpoint of the host range of S and whose end is the last host
\* address minus one, both inside S and neither its network address nor its
\* broadcast address; a malformed subnet fails with InvalidParameter and
\* defines no network.
C26_DhcpRange ==
    [][(Did("networks_create") /\ ret'.arg.connection \in {"nat", "isolated"})
       => /\ ret'.exc = "none"
             => LET S == IPNetwork(CreatedNetwork.subnet)
                    first == NetworkAddress(S) + 1
                    last == BroadcastAddress(S) - 1
                IN  /\ first <= last - 1
                    /\ \E start \in first..last :
                          /\ start \in {(first + last) \div 2, (first + last) \div 2 + 1}
                          /\ start <= last - 1
                          /\ DhcpIs(CreatedNetwork, start, last - 1)
          /\ (ret'.arg.subnet = "not-a-subnet" /\ ~HasNetwork(ret'.arg.name))
             => /\ ret'.exc = "InvalidParameter"
                /\ networks' = networks]_vars

----------------------------------------------------------------------------
(***************************************************************************)
(* Bridged networks, checked under SpecNet.                                *)
(***************************************************************************)

\* The interfaces the networks of a list claim, read from the networks themselves.
ClaimedBy(nets) == {nets[i].interface : i \in DOMAIN nets} \ {""}

\* No interface is claimed by two networks.
NoSharedInterface ==
    \A i, j \in DOMAIN networks :
        (i # j /\ networks[i].interface # "") => networks[i].interface # networks[j].interface

----------------------------------------------------------------------------
(***************************************************************************)
(* The outcome of storagepools_create by type, checked under SpecPool.     *)
(***************************************************************************)

\* The calls that succeeded, in order.
Succeeded(names) == [i \in DOMAIN names |-> [call |-> names[i], ok |-> TRUE]]

\* C28: a successful storagepools_create of type kimchi-iso submits exactly one
\* task, stores the name -> task id linkage under 'scanning' and creates a
\* transient pool (nothing is defined), which storagepool_lookup reports as
\* kimchi-iso with that task id; of type dir or logical it defines the pool,
\* builds it and enables its autostart; of any other type it only defines the
\* pool, inactive, not built and with autostart disabled, and submits no task.
C28_CreateOutcomeByType ==
    [][(Did("storagepools_create") /\ ret'.exc = "none")
       => LET name == ret'.arg.name
              type == ret'.arg.type
              pool == pools'[Len(pools')]
          IN  /\ pools' = Append(pools, pool)
              /\ pool.name = name
              /\ IF type = "kimchi-iso"
                 THEN /\ next_taskid' = next_taskid + 1
                      /\ tasks' = Append(tasks, NewTask(next_taskid, ""))
                      /\ OsGet(objstore', "scanning", name) = [task_id |-> next_taskid]
                      /\ ~pool.persistent
                      /\ ret'.log = Succeeded(<<"storagePoolCreateXML">>)
                      /\ storagepool_lookup(pools', objstore', name).type = "kimchi-iso"
                      /\ storagepool_lookup(pools', objstore', name).task_id
                            = ToString(next_taskid)
                 ELSE /\ UNCHANGED <<next_taskid, tasks, objstore>>
                      /\ pool.persistent /\ pool.type = type
                      /\ storagepool_lookup(pools', objstore', name).type = type
                      /\ IF type \in {"dir", "logical"}
                         THEN /\ pool.built /\ pool.autostart
                              /\ ret'.log = Succeeded(<<"storagePoolDefineXML", "build",
                                                        "setAutostart">>)
                         ELSE /\ ~pool.built /\ ~pool.autostart /\ ~pool.active
                              /\ ret'.log = Succeeded(<<"storagePoolDefineXML",
                                                        "setAutostart">>)]_vars

\* C28 witness: a kimchi-iso request has succeeded: the pool is transient and
\* linked to its scan task.
C28_Witness ==
    /\ ret.op = "storagepools_create"
    /\ ret.exc = "none"
    /\ ret.arg.type = "kimchi-iso"
    /\ HasPool(ret.arg.name)
    /\ storagepool_lookup(pools, objstore, ret.arg.name).type = "kimchi-iso"
    /\ tasks # <<>>

\* The files of the debug reports directory.
Managed(fs) == {f \in fs : f.dir = "debugreports"}

\* The task the step was about is finished by it: cb('OK', True) was called.
SignalsCompletion ==
    /\ Call("cb", TRUE) \in SeqRange(ret'.log)
    /\ TaskStatusOf(objstore', ret'.arg.id) = "finished"

\* An artifact of /tmp matching the name's prefix went under the debug reports
\* directory.
MovedArtifact ==
    \E f \in report_outputs(files \cup ret'.arg.produced, ret'.arg.name) :
        /\ f \notin files'
        /\ target_file(ret'.arg.name, f) \in files'

\* No completion was signalled and no file moved: the task did not finish and
\* the step left the files where the command put them.
FailsCleanly ==
    /\ ret'.exc = "OperationFailed"
    /\ Call("cb", TRUE) \notin SeqRange(ret'.log)
    /\ TaskStatusOf(objstore', ret'.arg.id) # "finished"
    /\ files' = files \cup ret'.arg.produced

\* C29 (debug report generation): debugreports_create submits a task only when a
\* report tool is available, and with none it fails with OperationFailed and
\* allocates no task id; _sosreport_generate signals completion only after the
\* command exited with code 0 and an artifact matching the name's prefix was
\* moved under the debug reports directory; when the command exits non-zero or
\* on a signal, or no matching artifact is found, it fails with OperationFailed,
\* signals no completion and moves no file.
C29_DebugReportGeneration ==
    [][ /\ Did("debugreports_create") =>
            /\ (tasks' # tasks \/ next_taskid' # next_taskid) => ret'.arg.found # {}
            /\ ret'.arg.found = {} =>
                  /\ ret'.exc = "OperationFailed"
                  /\ next_taskid' = next_taskid
                  /\ tasks' = tasks
            /\ ret'.exc # "none" => next_taskid' = next_taskid
        /\ Did("_sosreport_generate") =>
            /\ SignalsCompletion =>
                  /\ ret'.arg.retcode = 0
                  /\ MovedArtifact
                  /\ ret'.log[1] = Call("shutil.move", TRUE)
            /\ TaskStatusOf(objstore', ret'.arg.id) = "finished" => SignalsCompletion
            /\ (\/ ret'.arg.retcode # 0
                \/ report_outputs(files \cup ret'.arg.produced, ret'.arg.name) = {})
                  => FailsCleanly
      ]_vars

\* A report task finished after its artifact was moved, another run of the
\* command exited non-zero while a matching artifact was in /tmp, and a request
\* found no report tool.
C29_Witness ==
    /\ ret.op = "_sosreport_generate"
    /\ ret.arg.retcode # 0
    /\ report_outputs(files, ret.arg.name) # {}
    /\ Managed(files) # {}
    /\ \E k \in DOMAIN tasks : tasks[k].status = "finished"

\* C30 (rollback covers the icon record): when vms_create fails at the VM
\* definition, the volumes forked by the attempt having been deleted, the object
\* store holds no 'vm' record for the UUID the attempt generated.
C30_RollbackRemovesIconRecord ==
    [][ (/\ Did("vms_create")
         /\ ret'.exc = "OperationFailed"
         /\ Call("defineXML", FALSE) \in SeqRange(ret'.log))
            => ~OsHas(objstore', "vm", ToString(next_uuid))
      ]_vars

\* C31 (rollback of a failed fork): when the creation of a volume fails in
\* vms_create after earlier volumes of the attempt were created, those volumes
\* are deleted (the volumes are what they were before the call), no domain is
\* defined, and the operation fails with OperationFailed.
C31_ForkFailureRollsBack ==
    [][(Did("vms_create") /\ Call("createXML", FALSE) \in SeqRange(ret'.log))
        => /\ volumes' = volumes
           /\ vms' = vms
           /\ ret'.exc = "OperationFailed"
      ]_vars

\* The operation failed with OperationFailed after it had created something:
\* the pool or the network was defined, or the deep-scan task was submitted.
FailedAfterPartialEffect ==
    /\ ret'.exc = "OperationFailed"
    /\ \/ /\ Did("storagepools_create")
          /\ \/ Call("storagePoolDefineXML", TRUE) \in SeqRange(ret'.log)
             \/ Call("storagePoolCreateXML", FALSE) \in SeqRange(ret'.log)
       \/ /\ Did("networks_create")
          /\ Call("networkDefineXML", TRUE) \in SeqRange(ret'.log)

\* C32 (rollback of storagepools_create and networks_create): when the operation
\* fails with OperationFailed after the pool or network was defined, or after the
\* deep-scan task was submitted, no pool or network of that name is defined and
\* no 'scanning' record of that name exists.
C32_CreateRollsBack ==
    [][FailedAfterPartialEffect
        => /\ \A i \in DOMAIN pools' :
                 Did("storagepools_create") => pools'[i].name # ret'.arg.name
           /\ \A i \in DOMAIN networks' :
                 Did("networks_create") => networks'[i].name # ret'.arg.name
           /\ Did("storagepools_create") => ~OsHas(objstore', "scanning", ret'.arg.name)
      ]_vars

\* C33 (rename only when shut off): a vm_update with a 'name' calls undefine
\* only if the VM's state is shutoff; in every other state the rename is
\* rejected and the VM is neither undefined nor redefined.
C33_RenameOnlyWhenShutoff ==
    [][(DidOnVm("vm_update") /\ ret'.arg.hasName)
       => /\ ret'.log # <<>> => DomState(TargetVm) = "shutoff"
          /\ DomState(TargetVm) # "shutoff"
                => /\ ret'.exc # "none"
                   /\ ret'.log = <<>>
                   /\ vms' = vms]_vars

\* The cpu_utilization vm_lookup reports for the domain v, after its own reset
\* of the window of a domain that is shut off.
ReportedCpu(v) == vm_lookup_reported(vm_lookup_stats(stats, v), v.uuid).cpu_utilization

\* C34 (cpu_utilization is a percentage): in every reachable state the
\* cpu_utilization that vm_lookup reports for any VM lies in [0, 100], whatever
\* the cpu-time counter did between the ticks.
C34_CpuUtilizationInRange ==
    \A v \in vms :
        /\ ~RatLess(ReportedCpu(v), RatOfInt(0))
        /\ ~RatLess(RatOfInt(100), ReportedCpu(v))

\* vm_lookup reports 0 for a sampled domain whose counter was last read as 0 (it
\* did not grow, or went down) while it reports 100 for one whose counter jumped.
C34_Witness ==
    /\ ret.op = "vm_lookup"
    /\ ret.exc = "none"
    /\ \E v \in vms :
          /\ v.uuid \in DOMAIN lastSample
          /\ "cputime" \in DOMAIN DictGet(stats, v.uuid, EmptyDict)
          /\ stats[v.uuid].cputime = 0
          /\ ReportedCpu(v) = RatOfInt(0)
    /\ \E v \in vms : ReportedCpu(v) = RatOfInt(100)

\* The templates of an object store: name -> record.
TemplateMap(os) ==
    [id \in SeqRange(OsGetList(os, "template")) |-> OsGet(os, "template", id)]

\* The info a template_update asks for: the old info updated with the params.
UpdatedTemplate ==
    DictUpdate(template_lookup(objstore, ret'.arg.name), ret'.arg.params)

C36_PortOnlyAfterConnect ==
    /\ [](\A v \in vms :
            vm_lookup_port(graphics_ports, v) # NoPort
                => /\ v.uuid \in running
                   /\ vm_lookup_port(graphics_ports, v).dom = v.uuid)
    /\ [][(DidOnVm("vm_connect") /\ ~ret'.arg.hasVnc)
            => /\ ret'.exc = "OperationFailed"
               /\ graphics_ports' = graphics_ports]_vars

\* C37 (only the broken session is discarded): a slot that holds a session is
\* cleared only by the failed call of a thread that made the call through that
\* same session; the failure of a call on an older, already replaced session
\* does not clear the slot that holds its successor.
C37_OnlyBrokenSessionDiscarded ==
    [][\A c \in ConnIds :
          (connections[c] # None /\ connections'[c] = None)
              => \E t \in Threads : /\ th[t].pc = "unwind"
                                    /\ th'[t] # th[t]
                                    /\ th[t].conn = connections[c]
      ]_vars

C39_StatsOnlyForExistingVms ==
    [][Did("tick")
        => /\ DOMAIN stats' \subseteq {v.uuid : v \in vms'}
           /\ Cardinality(DOMAIN stats') <= Cardinality(vms')
      ]_vars

\* C40 (no shutdown or reboot under running VMs): with a VM in state running
\* the call fails with OperationFailed and issues no command; a command is
\* issued only when the list of running VMs was empty; and, with vm_start
\* requests running next to it, no VM is running when the command is issued.
C40_NoPowerOffWhileRunning ==
    /\ [][\A op \in {"host_shutdown", "host_reboot"} :
            /\ (Did(op) /\ ret'.exc = "OperationFailed")
                  => /\ ret'.arg.seen # {}
                     /\ power'.issued = power.issued
            /\ (Did(op) /\ ret'.exc = "none")
                  => /\ ret'.arg.seen = {}
                     /\ Len(power'.issued) = Len(power.issued) + 1
         ]_vars
    /\ [](\A i \in DOMAIN power.issued : power.issued[i].running = {})

====
